---- MODULE Spec2Model ----
(***************************************************************************)
(* Port forwarding engine (src-tauri/src/commands/toolbox/forwarder.rs)    *)
(* and netcat engine (src-tauri/src/commands/toolbox/netcat/) of codeshelf.*)
(*                                                                         *)
(* The registry FORWARD_RULES, the controller table FORWARD_CONTROLLERS,   *)
(* the snapshot file, the Arc<ForwardController> objects, the spawned      *)
(* accept-loop tasks and the spawned per-connection tasks are the state.   *)
(* A tauri command is a sequence of steps, one per lock section of its     *)
(* code (every `.lock().await` block is atomic, tasks interleave between   *)
(* them).  Inert payload fields of a rule (name, doc_path, created_at) are *)
(* not read by the engine and are left out of the rule record.             *)
(*                                                                         *)
(* The netcat engine is modelled the same way: the session manager, the    *)
(* three sender tables, the channels and the spawned tasks are the state;  *)
(* a step is one lock section, or one socket or channel operation together *)
(* with the lock section that follows it.                                  *)
(***************************************************************************)
EXTENDS Integers, Sequences, FiniteSets, TLC

VARIABLES
    FORWARD_RULES,        \* registry: rule id -> ForwardRule
    RULES_LOADED,         \* the lazy-load flag
    FORWARD_CONTROLLERS,  \* controller table: rule id -> index of its Arc<ForwardController>
    rules_file,           \* content of forward_rules.json: rule id -> ForwardRule as serialised
    next_id,              \* the clock generate_id() reads: ids are handed out in increasing order
    controllers,          \* every ForwardController created so far (the Arc heap)
    servers,              \* the task spawned by the k-th start_forwarding (same index as controllers)
    conns,                \* every connection accepted so far, with its handler task
    calls,                \* the command each IPC caller is executing, and its last result
    sessions,             \* NetcatState.sessions: session id -> SessionState
    sessions_file,        \* content of the netcat sessions file: session id -> NetcatSessionConfig
    nc_next_id,           \* the clock generate_id() reads for session and client ids
    TCP_SENDERS,          \* tcp_client.rs: session id -> sender of the client's send channel
    SERVER_CLIENTS,       \* tcp_server.rs: session id -> (client id -> sender of its send channel)
    UDP_SOCKETS,          \* udp.rs: session id -> UdpSocketState
    shutdown_channels,    \* every mpsc::channel::<()>(1) created so far
    send_channels,        \* every send channel created so far, with what was written to its peer
    tasks,                \* every task the netcat engine spawned so far
    nc_calls,             \* the netcat command each IPC caller is executing, and its last result
    scan_result           \* the scanner command of the run, with what it returned

\* the state of the forwarding engine and the state of the netcat engine: the two share
\* no static, no lock and no task
fwd_vars == <<FORWARD_RULES, RULES_LOADED, FORWARD_CONTROLLERS, rules_file, next_id,
              controllers, servers, conns, calls>>

nc_vars == <<sessions, sessions_file, nc_next_id, TCP_SENDERS, SERVER_CLIENTS, UDP_SOCKETS,
             shutdown_channels, send_channels, tasks, nc_calls>>

\* the scanner keeps no state between commands; the model keeps the last result
scan_vars == <<scan_result>>

vars == <<FORWARD_RULES, RULES_LOADED, FORWARD_CONTROLLERS, rules_file, next_id,
          controllers, servers, conns, calls,
          sessions, sessions_file, nc_next_id, TCP_SENDERS, SERVER_CLIENTS, UDP_SOCKETS,
          shutdown_channels, send_channels, tasks, nc_calls, scan_result>>

----------------------------------------------------------------------------
(* Bounds of the model *)

MaxRules == 2       \* rule ids generate_id hands out in one run
MaxPort == 2        \* local ports are 0..MaxPort (0 is the invalid port)
MaxStarts == 2      \* start_forwarding calls that create a controller (Spec)
RelayStarts == 1    \* the same, where connections are followed (SpecStop, SpecRelay, SpecSem)
StopConns == 1      \* connections accepted in one run of SpecStop
RelayConns == 1     \* connections accepted in one run of SpecRelay
StatsConns == 2     \* connections accepted in one run of SpecCount
MaxPermits == 2     \* stands for the 100 permits of Semaphore::new(100)
BufSize == 2        \* stands for the 8192-byte buffer of a copy loop
MaxByte == 1        \* byte values are 0..MaxByte
MsgCap == 2         \* stands for the 1000 messages a session's log keeps
MaxSessions == 1    \* sessions netcat_create_session creates in one run
NcStarts == 1       \* netcat_start_session calls that spawn a task in one run
MaxClients == 2     \* connections a rule and clients a TCP server accept in one run of SpecConn
ServerClients == 1  \* clients a TCP server accepts in one run of SpecTcpServer
MaxMsgs == 3        \* messages a session counts in one run (one more than its log keeps)
ServerMsgs == 2     \* messages a session counts in one run of SpecTcpServer
SendCap == 1        \* stands for the 100 slots of a send channel
HexLen == 3         \* hex payloads have up to HexLen characters (SpecHex)
HexMsgs == 1        \* messages a session counts in one run of SpecHex and of SpecDisplay
ChunkLen == 3       \* received chunks have up to ChunkLen bytes (SpecDisplay)

\* a peer sends up to one byte more than the buffer holds on one direction
MaxLen == BufSize + 1

\* one connection more than there are permits
SemConns == MaxPermits + 1

UdpIdBase == 100    \* ids of UDP clients are above it, ids of generate_id below it

CounterMod == 65536 \* the connections counter wraps like an AtomicU32; the model wraps it
                    \* at 2^16 because TLC's integers end below 2^32

----------------------------------------------------------------------------
(* Values *)

RuleIds == 1..MaxRules
LocalPorts == 0..MaxPort
Callers == 1..2

\* the inputs tried: every local port with a valid remote side, and one input per
\* validation that fails alone (empty host, remote port 0)
ForwardRuleInput ==
    {[local_port |-> p, remote_host |-> "h", remote_port |-> 1] : p \in LocalPorts}
    \cup {[local_port |-> 1, remote_host |-> "", remote_port |-> 1],
          [local_port |-> 1, remote_host |-> "h", remote_port |-> 0]}

NoInput == [local_port |-> 0, remote_host |-> "", remote_port |-> 0]

NoRule == [local_port |-> 0, remote_host |-> "", remote_port |-> 0,
           status |-> "none", connections |-> 0, bytes_in |-> 0, bytes_out |-> 0]

EmptyMap == [x \in {} |-> 0]

Insert(f, k, v) == [x \in (DOMAIN f) \cup {k} |-> IF x = k THEN v ELSE f[x]]

Remove(f, k) == [x \in (DOMAIN f) \ {k} |-> f[x]]

Get(f, k) == IF k \in DOMAIN f THEN f[k] ELSE NoRule

Byte == 0..MaxByte

RECURSIVE SeqsUpTo(_)
SeqsUpTo(n) ==
    IF n = 0 THEN {<<>>}
    ELSE LET S == SeqsUpTo(n - 1)
         IN S \cup {Append(s, b) : s \in {t \in S : Len(t) = n - 1}, b \in Byte}

IsPrefix(s, t) == Len(s) <= Len(t) /\ SubSeq(t, 1, Len(s)) = s

----------------------------------------------------------------------------
(* Persistence: load_rules_from_file, save_rules_to_file, ensure_rules_loaded *)

\* load_rules_from_file: every rule of the snapshot, with the runtime fields reset
load_rules_from_file(file) ==
    [id \in DOMAIN file |->
        [file[id] EXCEPT !.status = "stopped", !.connections = 0,
                         !.bytes_in = 0, !.bytes_out = 0]]

\* save_rules_to_file serialises the registry values as they are (status and counters included)
save_rules_to_file(rules) == rules

\* ensure_rules_loaded: the registry a command sees after its first statement
ensure_rules_loaded ==
    /\ FORWARD_RULES' = IF RULES_LOADED THEN FORWARD_RULES ELSE load_rules_from_file(rules_file)
    /\ RULES_LOADED' = TRUE

----------------------------------------------------------------------------
(* ForwardController *)

ForwardController_new == [stop |-> FALSE, connections |-> 0, bytes_in |-> 0, bytes_out |-> 0]

is_stopped(c) == controllers[c].stop

inc_connections(ctl) == [ctl EXCEPT !.connections = (@ + 1) % CounterMod]

dec_connections_Skip(ctl) == ctl

dec_connections(ctl) == [ctl EXCEPT !.connections = (@ + CounterMod - 1) % CounterMod]

add_bytes_in(ctl, n) == [ctl EXCEPT !.bytes_in = @ + n]

add_bytes_out(ctl, n) == [ctl EXCEPT !.bytes_out = @ + n]

get_stats(ctl) == [some |-> TRUE, connections |-> ctl.connections,
                   bytes_in |-> ctl.bytes_in, bytes_out |-> ctl.bytes_out]

NoStats == [some |-> FALSE, connections |-> 0, bytes_in |-> 0, bytes_out |-> 0]

----------------------------------------------------------------------------
(* Calls *)

IdleCall == [op |-> "none", pc |-> "idle", rule_id |-> 0, input |-> NoInput,
             rule |-> NoRule, ctrl |-> 0, ids |-> {}, stats |-> NoStats,
             result |-> "none", value |-> EmptyMap]

\* the command returns: its locals are dropped, the caller sees the result
Returned(call, res) ==
    [call EXCEPT !.pc = "done", !.result = res, !.input = NoInput, !.rule = NoRule,
                 !.ids = {}, !.stats = NoStats]

CanInvoke(c) == calls[c].pc \in {"idle", "done"}

NewCall(o, id, inp, p) == [op |-> o, pc |-> p, rule_id |-> id, input |-> inp,
                           rule |-> NoRule, ctrl |-> 0, ids |-> {}, stats |-> NoStats,
                           result |-> "none", value |-> EmptyMap]

SetCall(c, rec) == calls' = [calls EXCEPT ![c] = rec]

InFlight(o) == Cardinality({c \in Callers : calls[c].op = o /\ calls[c].pc \notin {"idle", "done"}})

----------------------------------------------------------------------------
(* add_forward_rule *)

\* the command is invoked; its first statement is ensure_rules_loaded
add_forward_rule_invoke(c, input) ==
    /\ CanInvoke(c)
    /\ next_id + InFlight("add") <= MaxRules
    /\ ensure_rules_loaded
    /\ SetCall(c, NewCall("add", 0, input, "add_check"))
    /\ UNCHANGED <<FORWARD_CONTROLLERS, rules_file, next_id, controllers, servers, conns>>
    /\ UNCHANGED <<nc_vars, scan_vars>>

\* add_forward_rule without the check of remote_host
InvalidInput_NoHostCheck(inp) == inp.local_port = 0 \/ inp.remote_port = 0

InvalidInput(inp) == inp.local_port = 0 \/ inp.remote_port = 0 \/ inp.remote_host = ""

PortInUse(rules, port) ==
    \E id \in DOMAIN rules : rules[id].local_port = port /\ rules[id].status = "running"

\* the three validations, then the lock section that looks for a Running rule on the port
add_forward_rule_check(c) ==
    /\ calls[c].pc = "add_check"
    /\ SetCall(c, IF InvalidInput(calls[c].input)
                      THEN Returned(calls[c], "err_validation")
                  ELSE IF PortInUse(FORWARD_RULES, calls[c].input.local_port)
                      THEN Returned(calls[c], "err_conflict")
                  ELSE [calls[c] EXCEPT !.pc = "add_insert"])
    /\ UNCHANGED <<FORWARD_RULES, RULES_LOADED, FORWARD_CONTROLLERS, rules_file, next_id,
                   controllers, servers, conns>>
    /\ UNCHANGED <<nc_vars, scan_vars>>

NewRule(inp) == [local_port |-> inp.local_port, remote_host |-> inp.remote_host,
                 remote_port |-> inp.remote_port, status |-> "stopped",
                 connections |-> 0, bytes_in |-> 0, bytes_out |-> 0]

\* generate_id, build the rule (Stopped, zero counters), insert it
add_forward_rule_insert(c) ==
    /\ calls[c].pc = "add_insert"
    /\ next_id <= MaxRules
    /\ FORWARD_RULES' = Insert(FORWARD_RULES, next_id, NewRule(calls[c].input))
    /\ next_id' = next_id + 1
    /\ SetCall(c, [calls[c] EXCEPT !.pc = "add_save", !.rule_id = next_id,
                                   !.rule = NewRule(calls[c].input)])
    /\ UNCHANGED <<RULES_LOADED, FORWARD_CONTROLLERS, rules_file, controllers, servers, conns>>
    /\ UNCHANGED <<nc_vars, scan_vars>>

\* the rule is removed again because it could not be persisted
add_forward_rule_rollback(c) ==
    /\ calls[c].pc = "add_rollback"
    /\ FORWARD_RULES' = Remove(FORWARD_RULES, calls[c].rule_id)
    /\ SetCall(c, Returned(calls[c], "err_save"))
    /\ UNCHANGED <<RULES_LOADED, FORWARD_CONTROLLERS, rules_file, next_id, controllers, servers, conns>>
    /\ UNCHANGED <<nc_vars, scan_vars>>

----------------------------------------------------------------------------
(* save_rules_to_file, as called by add, remove and update *)

AfterSaveOk(call) ==
    IF call.pc = "upd_save" THEN [call EXCEPT !.pc = "upd_ret"] ELSE Returned(call, "ok")

AfterSaveErr(call) ==
    [call EXCEPT !.pc = CASE call.pc = "add_save" -> "add_rollback"
                          [] call.pc = "rm_save" -> "rm_rollback"
                          [] OTHER -> "upd_rollback"]

\* the registry is written out under its lock
save_rules_to_file_ok(c) ==
    /\ calls[c].pc \in {"add_save", "rm_save", "upd_save"}
    /\ rules_file' = save_rules_to_file(FORWARD_RULES)
    /\ SetCall(c, AfterSaveOk(calls[c]))
    /\ UNCHANGED <<FORWARD_RULES, RULES_LOADED, FORWARD_CONTROLLERS, next_id, controllers, servers, conns>>
    /\ UNCHANGED <<nc_vars, scan_vars>>

\* get_storage_config, ensure_dirs, serialisation or fs::write failed
save_rules_to_file_err(c) ==
    /\ calls[c].pc \in {"add_save", "rm_save", "upd_save"}
    /\ SetCall(c, AfterSaveErr(calls[c]))
    /\ UNCHANGED <<FORWARD_RULES, RULES_LOADED, FORWARD_CONTROLLERS, rules_file, next_id,
                   controllers, servers, conns>>
    /\ UNCHANGED <<nc_vars, scan_vars>>

----------------------------------------------------------------------------
(* start_forwarding *)

start_forwarding_invoke(c, id, maxStarts) ==
    /\ CanInvoke(c)
    /\ Len(controllers) + InFlight("start") < maxStarts
    /\ ensure_rules_loaded
    /\ SetCall(c, NewCall("start", id, NoInput, "start_read"))
    /\ UNCHANGED <<FORWARD_CONTROLLERS, rules_file, next_id, controllers, servers, conns>>
    /\ UNCHANGED <<nc_vars, scan_vars>>

\* start_forwarding without the check of the status
StartCheck_NoRunningCheck(call, rules) ==
    IF call.rule_id \notin DOMAIN rules THEN Returned(call, "err_notfound")
    ELSE [call EXCEPT !.pc = "start_ctrl", !.rule = rules[call.rule_id]]

StartCheck(call, rules) ==
    IF call.rule_id \notin DOMAIN rules THEN Returned(call, "err_notfound")
    ELSE IF rules[call.rule_id].status = "running" THEN Returned(call, "err_running")
    ELSE [call EXCEPT !.pc = "start_ctrl", !.rule = rules[call.rule_id]]

\* read the rule; reject an unknown id and a rule that is already Running
start_forwarding_read(c) ==
    /\ calls[c].pc = "start_read"
    /\ SetCall(c, StartCheck(calls[c], FORWARD_RULES))
    /\ UNCHANGED <<FORWARD_RULES, RULES_LOADED, FORWARD_CONTROLLERS, rules_file, next_id,
                   controllers, servers, conns>>
    /\ UNCHANGED <<nc_vars, scan_vars>>

NoServer == [pc |-> "none", rule_id |-> 0, local_port |-> 0, permits |-> MaxPermits,
             inbound |-> 0, bound |-> FALSE]

\* create a fresh controller and put it in the controller table
start_forwarding_ctrl(c) ==
    /\ calls[c].pc = "start_ctrl"
    /\ controllers' = Append(controllers, ForwardController_new)
    /\ servers' = Append(servers, NoServer)
    /\ FORWARD_CONTROLLERS' = Insert(FORWARD_CONTROLLERS, calls[c].rule_id, Len(controllers) + 1)
    /\ SetCall(c, [calls[c] EXCEPT !.pc = "start_status", !.ctrl = Len(controllers) + 1])
    /\ UNCHANGED <<FORWARD_RULES, RULES_LOADED, rules_file, next_id, conns>>
    /\ UNCHANGED <<nc_vars, scan_vars>>

SetStatus(rules, id, st) ==
    IF id \in DOMAIN rules THEN [rules EXCEPT ![id].status = st] ELSE rules

\* mark the rule Running
start_forwarding_status(c) ==
    /\ calls[c].pc = "start_status"
    /\ FORWARD_RULES' = SetStatus(FORWARD_RULES, calls[c].rule_id, "running")
    /\ SetCall(c, [calls[c] EXCEPT !.pc = "start_spawn"])
    /\ UNCHANGED <<RULES_LOADED, FORWARD_CONTROLLERS, rules_file, next_id, controllers, servers, conns>>
    /\ UNCHANGED <<nc_vars, scan_vars>>

\* tokio::spawn of the server task with the values copied from the rule, then Ok(())
start_forwarding_spawn(c) ==
    /\ calls[c].pc = "start_spawn"
    /\ servers' = [servers EXCEPT ![calls[c].ctrl] =
                      [@ EXCEPT !.pc = "bind", !.rule_id = calls[c].rule_id,
                                !.local_port = calls[c].rule.local_port]]
    /\ SetCall(c, Returned(calls[c], "ok"))
    /\ UNCHANGED <<FORWARD_RULES, RULES_LOADED, FORWARD_CONTROLLERS, rules_file, next_id,
                   controllers, conns>>
    /\ UNCHANGED <<nc_vars, scan_vars>>

----------------------------------------------------------------------------
(* stop_forwarding, also as called by remove_forward_rule and update_forward_rule *)

stop_forwarding_invoke(c, id) ==
    /\ CanInvoke(c)
    /\ SetCall(c, NewCall("stop", id, NoInput, "stop_signal"))
    /\ UNCHANGED <<FORWARD_RULES, RULES_LOADED, FORWARD_CONTROLLERS, rules_file, next_id,
                   controllers, servers, conns>>
    /\ UNCHANGED <<nc_vars, scan_vars>>

\* stop_forwarding that looks the controller up but does not call controller.stop()
stop_forwarding_signal_NoStop(c) ==
    /\ calls[c].pc = "stop_signal"
    /\ SetCall(c, [calls[c] EXCEPT !.pc = "stop_status",
                       !.ctrl = IF calls[c].rule_id \in DOMAIN FORWARD_CONTROLLERS
                                THEN FORWARD_CONTROLLERS[calls[c].rule_id] ELSE 0])
    /\ UNCHANGED <<FORWARD_RULES, RULES_LOADED, FORWARD_CONTROLLERS, rules_file, next_id,
                   controllers, servers, conns>>
    /\ UNCHANGED <<nc_vars, scan_vars>>

\* set the stop flag of the controller registered for the id, if there is one
stop_forwarding_signal(c) ==
    /\ calls[c].pc = "stop_signal"
    /\ controllers' = IF calls[c].rule_id \in DOMAIN FORWARD_CONTROLLERS
                      THEN [controllers EXCEPT ![FORWARD_CONTROLLERS[calls[c].rule_id]].stop = TRUE]
                      ELSE controllers
    /\ SetCall(c, [calls[c] EXCEPT !.pc = "stop_status",
                       !.ctrl = IF calls[c].rule_id \in DOMAIN FORWARD_CONTROLLERS
                                THEN FORWARD_CONTROLLERS[calls[c].rule_id] ELSE 0])
    /\ UNCHANGED <<FORWARD_RULES, RULES_LOADED, FORWARD_CONTROLLERS, rules_file, next_id, servers, conns>>
    /\ UNCHANGED <<nc_vars, scan_vars>>

\* mark the rule Stopped without waiting for the server task
stop_forwarding_status(c) ==
    /\ calls[c].pc = "stop_status"
    /\ FORWARD_RULES' = SetStatus(FORWARD_RULES, calls[c].rule_id, "stopped")
    /\ SetCall(c, [calls[c] EXCEPT !.pc = "stop_remove"])
    /\ UNCHANGED <<RULES_LOADED, FORWARD_CONTROLLERS, rules_file, next_id, controllers, servers, conns>>
    /\ UNCHANGED <<nc_vars, scan_vars>>

\* drop the controller table's entry
stop_forwarding_remove(c) ==
    /\ calls[c].pc = "stop_remove"
    /\ FORWARD_CONTROLLERS' = Remove(FORWARD_CONTROLLERS, calls[c].rule_id)
    /\ SetCall(c, [calls[c] EXCEPT !.pc = "stop_sleep"])
    /\ UNCHANGED <<FORWARD_RULES, RULES_LOADED, rules_file, next_id, controllers, servers, conns>>
    /\ UNCHANGED <<nc_vars, scan_vars>>

AfterStop(call) ==
    CASE call.op = "remove" -> [call EXCEPT !.pc = "rm_read"]
      [] call.op = "update" -> [call EXCEPT !.pc = "upd_write"]
      [] OTHER -> Returned(call, "ok")

\* the 50 ms sleep is over: stop_forwarding returns Ok(()) to the command or to its caller
stop_forwarding_sleep(c) ==
    /\ calls[c].pc = "stop_sleep"
    /\ SetCall(c, AfterStop(calls[c]))
    /\ UNCHANGED <<FORWARD_RULES, RULES_LOADED, FORWARD_CONTROLLERS, rules_file, next_id,
                   controllers, servers, conns>>
    /\ UNCHANGED <<nc_vars, scan_vars>>

----------------------------------------------------------------------------
(* remove_forward_rule *)

remove_forward_rule_invoke(c, id) ==
    /\ CanInvoke(c)
    /\ ensure_rules_loaded
    /\ SetCall(c, NewCall("remove", id, NoInput, "stop_signal"))
    /\ UNCHANGED <<FORWARD_CONTROLLERS, rules_file, next_id, controllers, servers, conns>>
    /\ UNCHANGED <<nc_vars, scan_vars>>

\* old_rule is kept for the rollback
remove_forward_rule_read(c) ==
    /\ calls[c].pc = "rm_read"
    /\ SetCall(c, [calls[c] EXCEPT !.pc = "rm_remove", !.rule = Get(FORWARD_RULES, calls[c].rule_id)])
    /\ UNCHANGED <<FORWARD_RULES, RULES_LOADED, FORWARD_CONTROLLERS, rules_file, next_id,
                   controllers, servers, conns>>
    /\ UNCHANGED <<nc_vars, scan_vars>>

remove_forward_rule_remove(c) ==
    /\ calls[c].pc = "rm_remove"
    /\ FORWARD_RULES' = Remove(FORWARD_RULES, calls[c].rule_id)
    /\ SetCall(c, [calls[c] EXCEPT !.pc = "rm_save"])
    /\ UNCHANGED <<RULES_LOADED, FORWARD_CONTROLLERS, rules_file, next_id, controllers, servers, conns>>
    /\ UNCHANGED <<nc_vars, scan_vars>>

\* the rule is put back because the removal could not be persisted
remove_forward_rule_rollback(c) ==
    /\ calls[c].pc = "rm_rollback"
    /\ FORWARD_RULES' = IF calls[c].rule = NoRule THEN FORWARD_RULES
                        ELSE Insert(FORWARD_RULES, calls[c].rule_id, calls[c].rule)
    /\ SetCall(c, Returned(calls[c], "err_save"))
    /\ UNCHANGED <<RULES_LOADED, FORWARD_CONTROLLERS, rules_file, next_id, controllers, servers, conns>>
    /\ UNCHANGED <<nc_vars, scan_vars>>

----------------------------------------------------------------------------
(* update_forward_rule *)

update_forward_rule_invoke(c, id, input) ==
    /\ CanInvoke(c)
    /\ ensure_rules_loaded
    /\ SetCall(c, NewCall("update", id, input, "upd_read"))
    /\ UNCHANGED <<FORWARD_CONTROLLERS, rules_file, next_id, controllers, servers, conns>>
    /\ UNCHANGED <<nc_vars, scan_vars>>

UpdateCheck(call, rules) ==
    IF call.rule_id \notin DOMAIN rules THEN Returned(call, "err_notfound")
    ELSE [call EXCEPT !.rule = rules[call.rule_id],
                      !.pc = IF rules[call.rule_id].status = "running"
                             THEN "stop_signal" ELSE "upd_write"]

\* read the current rule (kept as old_rule); a Running rule is stopped first
update_forward_rule_read(c) ==
    /\ calls[c].pc = "upd_read"
    /\ SetCall(c, UpdateCheck(calls[c], FORWARD_RULES))
    /\ UNCHANGED <<FORWARD_RULES, RULES_LOADED, FORWARD_CONTROLLERS, rules_file, next_id,
                   controllers, servers, conns>>
    /\ UNCHANGED <<nc_vars, scan_vars>>

WriteInput(rules, id, inp) ==
    IF id \in DOMAIN rules
    THEN [rules EXCEPT ![id].local_port = inp.local_port,
                       ![id].remote_host = inp.remote_host,
                       ![id].remote_port = inp.remote_port]
    ELSE rules

\* overwrite the configuration fields (no validation of the input)
update_forward_rule_write(c) ==
    /\ calls[c].pc = "upd_write"
    /\ FORWARD_RULES' = WriteInput(FORWARD_RULES, calls[c].rule_id, calls[c].input)
    /\ SetCall(c, [calls[c] EXCEPT !.pc = "upd_save"])
    /\ UNCHANGED <<RULES_LOADED, FORWARD_CONTROLLERS, rules_file, next_id, controllers, servers, conns>>
    /\ UNCHANGED <<nc_vars, scan_vars>>

\* old_rule, as read at the beginning of the call, is put back
update_forward_rule_rollback(c) ==
    /\ calls[c].pc = "upd_rollback"
    /\ FORWARD_RULES' = Insert(FORWARD_RULES, calls[c].rule_id, calls[c].rule)
    /\ SetCall(c, Returned(calls[c], "err_save"))
    /\ UNCHANGED <<RULES_LOADED, FORWARD_CONTROLLERS, rules_file, next_id, controllers, servers, conns>>
    /\ UNCHANGED <<nc_vars, scan_vars>>

\* the final read of the rule that is returned
update_forward_rule_return(c) ==
    /\ calls[c].pc = "upd_ret"
    /\ SetCall(c, Returned(calls[c], IF calls[c].rule_id \in DOMAIN FORWARD_RULES
                                     THEN "ok" ELSE "err_notfound"))
    /\ UNCHANGED <<FORWARD_RULES, RULES_LOADED, FORWARD_CONTROLLERS, rules_file, next_id,
                   controllers, servers, conns>>
    /\ UNCHANGED <<nc_vars, scan_vars>>

----------------------------------------------------------------------------
(* The task spawned by start_forwarding: run_forward_server, then the status update *)

ServerPcs == {"none", "bind", "loop", "acquire", "exit", "done"}

\* the task holds a bound listener from a successful bind until it leaves the loop
HoldsListener(s) == servers[s].pc \in {"loop", "acquire"}

PortBound(port) == \E s \in 1..Len(servers) : HoldsListener(s) /\ servers[s].local_port = port

\* socket.bind and socket.listen succeed: no listener of this process holds the port
run_forward_server_bind_ok(s) ==
    /\ servers[s].pc = "bind"
    /\ ~PortBound(servers[s].local_port)
    /\ servers' = [servers EXCEPT ![s].pc = "loop", ![s].bound = TRUE]
    /\ UNCHANGED <<FORWARD_RULES, RULES_LOADED, FORWARD_CONTROLLERS, rules_file, next_id,
                   controllers, conns, calls>>
    /\ UNCHANGED <<nc_vars, scan_vars>>

\* bind fails (the port is held by this or by another process): Err is returned to the task
run_forward_server_bind_err(s) ==
    /\ servers[s].pc = "bind"
    /\ servers' = [servers EXCEPT ![s].pc = "exit"]
    /\ UNCHANGED <<FORWARD_RULES, RULES_LOADED, FORWARD_CONTROLLERS, rules_file, next_id,
                   controllers, conns, calls>>
    /\ UNCHANGED <<nc_vars, scan_vars>>

\* The loop is at "loop" both at its top and while it waits in timeout(1 s, accept): the
\* timeout and an accept error lead back to the top and change nothing, so they are
\* stuttering steps.  At the top the loop leaves, dropping the listener, when the stop
\* flag is set.
run_forward_server_stopped(s) ==
    /\ servers[s].pc = "loop"
    /\ is_stopped(s)
    /\ servers' = [servers EXCEPT ![s].pc = "exit"]
    /\ UNCHANGED <<FORWARD_RULES, RULES_LOADED, FORWARD_CONTROLLERS, rules_file, next_id,
                   controllers, conns, calls>>
    /\ UNCHANGED <<nc_vars, scan_vars>>

NewDir(stream) == [pc |-> "idle", src |-> stream, chunk |-> <<>>, rd |-> <<>>, wr |-> <<>>,
                   why |-> "none"]

NewConn(s, up, down) == [server |-> s, pc |-> "accepted", stats |-> NoStats,
                         c2s |-> NewDir(up), s2c |-> NewDir(down)]

\* a client connects and accept returns it (the flag may have been set while the loop was
\* waiting); up and down are the bytes the client and the remote
\* side are going to send on this connection
run_forward_server_accept(s, up, down, maxConns) ==
    /\ servers[s].pc = "loop"
    /\ Len(conns) < maxConns
    /\ conns' = Append(conns, NewConn(s, up, down))
    /\ servers' = [servers EXCEPT ![s].pc = "acquire", ![s].inbound = Len(conns) + 1]
    /\ UNCHANGED <<FORWARD_RULES, RULES_LOADED, FORWARD_CONTROLLERS, rules_file, next_id,
                   controllers, calls>>
    /\ UNCHANGED <<nc_vars, scan_vars>>

\* an accept loop that spawns the handler without waiting for a permit
run_forward_server_acquire_NoWait(s) ==
    /\ servers[s].pc = "acquire"
    /\ servers' = [servers EXCEPT ![s].pc = "loop", ![s].permits = @ - 1, ![s].inbound = 0]
    /\ conns' = [conns EXCEPT ![servers[s].inbound].pc = "inc"]
    /\ UNCHANGED <<FORWARD_RULES, RULES_LOADED, FORWARD_CONTROLLERS, rules_file, next_id,
                   controllers, calls>>
    /\ UNCHANGED <<nc_vars, scan_vars>>

\* acquire_owned().await returns once a permit is free; the handler task is spawned with it
run_forward_server_acquire(s) ==
    /\ servers[s].pc = "acquire"
    /\ servers[s].permits > 0
    /\ servers' = [servers EXCEPT ![s].pc = "loop", ![s].permits = @ - 1, ![s].inbound = 0]
    /\ conns' = [conns EXCEPT ![servers[s].inbound].pc = "inc"]
    /\ UNCHANGED <<FORWARD_RULES, RULES_LOADED, FORWARD_CONTROLLERS, rules_file, next_id,
                   controllers, calls>>
    /\ UNCHANGED <<nc_vars, scan_vars>>

\* run_forward_server has returned (Ok or Err): the task marks the rule Stopped
start_forwarding_task_exit(s) ==
    /\ servers[s].pc = "exit"
    /\ FORWARD_RULES' = SetStatus(FORWARD_RULES, servers[s].rule_id, "stopped")
    /\ servers' = [servers EXCEPT ![s].pc = "done"]
    /\ UNCHANGED <<RULES_LOADED, FORWARD_CONTROLLERS, rules_file, next_id, controllers, conns, calls>>
    /\ UNCHANGED <<nc_vars, scan_vars>>

----------------------------------------------------------------------------
(* The task spawned per accepted connection *)

RuleOf(k) == servers[conns[k].server].rule_id

\* ctrl.inc_connections()
connection_task_inc(k) ==
    /\ conns[k].pc = "inc"
    /\ controllers' = [controllers EXCEPT ![conns[k].server] = inc_connections(@)]
    /\ conns' = [conns EXCEPT ![k].pc = "stats1"]
    /\ UNCHANGED <<FORWARD_RULES, RULES_LOADED, FORWARD_CONTROLLERS, rules_file, next_id,
                   servers, calls>>
    /\ UNCHANGED <<nc_vars, scan_vars>>

\* update_rule_stats, first lock section: the stats of the controller registered for the id
LookupStats(id) ==
    IF id \in DOMAIN FORWARD_CONTROLLERS THEN get_stats(controllers[FORWARD_CONTROLLERS[id]])
    ELSE NoStats

\* update_rule_stats, second lock section: copy the stats into the registry entry
StoreStats(rules, id, st) ==
    IF id \in DOMAIN rules
    THEN [rules EXCEPT ![id].connections = st.connections,
                       ![id].bytes_in = st.bytes_in,
                       ![id].bytes_out = st.bytes_out]
    ELSE rules

AfterStats(pc) == IF pc \in {"stats1", "write1"} THEN "connect" ELSE "done"

\* leaving the task drops _permit
ReleasePermit(k, pc) ==
    IF AfterStats(pc) = "done"
    THEN servers' = [servers EXCEPT ![conns[k].server].permits = @ + 1]
    ELSE UNCHANGED servers

update_rule_stats_read(k) ==
    /\ conns[k].pc \in {"stats1", "stats2"}
    /\ LET st == LookupStats(RuleOf(k))
       IN IF st.some
          THEN /\ conns' = [conns EXCEPT ![k].stats = st,
                                         ![k].pc = IF conns[k].pc = "stats1" THEN "write1" ELSE "write2"]
               /\ UNCHANGED servers
          ELSE /\ conns' = [conns EXCEPT ![k].pc = AfterStats(conns[k].pc)]
               /\ ReleasePermit(k, conns[k].pc)
    /\ UNCHANGED <<FORWARD_RULES, RULES_LOADED, FORWARD_CONTROLLERS, rules_file, next_id,
                   controllers, calls>>
    /\ UNCHANGED <<nc_vars, scan_vars>>

update_rule_stats_write(k) ==
    /\ conns[k].pc \in {"write1", "write2"}
    /\ FORWARD_RULES' = StoreStats(FORWARD_RULES, RuleOf(k), conns[k].stats)
    /\ conns' = [conns EXCEPT ![k].stats = NoStats, ![k].pc = AfterStats(conns[k].pc)]
    /\ ReleasePermit(k, conns[k].pc)
    /\ UNCHANGED <<RULES_LOADED, FORWARD_CONTROLLERS, rules_file, next_id, controllers, calls>>
    /\ UNCHANGED <<nc_vars, scan_vars>>

\* handle_connection: the outbound connect succeeds, both copy loops start
handle_connection_connect_ok(k) ==
    /\ conns[k].pc = "connect"
    /\ conns' = [conns EXCEPT ![k].pc = "relay", ![k].c2s.pc = "read", ![k].s2c.pc = "read"]
    /\ UNCHANGED <<FORWARD_RULES, RULES_LOADED, FORWARD_CONTROLLERS, rules_file, next_id,
                   controllers, servers, calls>>
    /\ UNCHANGED <<nc_vars, scan_vars>>

\* the connect fails or times out after 10 s: Err is returned, inbound is dropped
handle_connection_connect_err(k) ==
    /\ conns[k].pc = "connect"
    /\ conns' = [conns EXCEPT ![k].pc = "dec"]
    /\ UNCHANGED <<FORWARD_RULES, RULES_LOADED, FORWARD_CONTROLLERS, rules_file, next_id,
                   controllers, servers, calls>>
    /\ UNCHANGED <<nc_vars, scan_vars>>

Dirs == {"c2s", "s2c"}

DirOf(cs, k, d) == IF d = "c2s" THEN cs[k].c2s ELSE cs[k].s2c

Dir(k, d) == DirOf(conns, k, d)

Other(d) == IF d = "c2s" THEN "s2c" ELSE "c2s"

SetDir(k, d, rec) ==
    conns' = IF d = "c2s" THEN [conns EXCEPT ![k].c2s = rec] ELSE [conns EXCEPT ![k].s2c = rec]

\* A copy loop is at "read" both at its top and while it waits in timeout(100 ms, read):
\* the timeout leads back to the top and changes nothing, so it is a stuttering step.
\* At the top the loop breaks when the stop flag is set.
copy_loop_stopped(k, d) ==
    /\ conns[k].pc = "relay"
    /\ Dir(k, d).pc = "read"
    /\ is_stopped(conns[k].server)
    /\ SetDir(k, d, [Dir(k, d) EXCEPT !.pc = "shutdown", !.why = "stop"])
    /\ UNCHANGED <<FORWARD_RULES, RULES_LOADED, FORWARD_CONTROLLERS, rules_file, next_id,
                   controllers, servers, calls>>
    /\ UNCHANGED <<nc_vars, scan_vars>>

Min(a, b) == IF a < b THEN a ELSE b

Tail_n(s, n) == SubSeq(s, n + 1, Len(s))

\* read returns n > 0 bytes (at most the buffer): count them, then write them
copy_loop_read_data(k, d, n) ==
    /\ conns[k].pc = "relay"
    /\ Dir(k, d).pc = "read"
    /\ n \in 1..Min(Len(Dir(k, d).src), BufSize)
    /\ controllers' = [controllers EXCEPT ![conns[k].server] =
                          IF d = "c2s" THEN add_bytes_out(@, n) ELSE add_bytes_in(@, n)]
    /\ SetDir(k, d, [Dir(k, d) EXCEPT !.pc = "write",
                                      !.chunk = SubSeq(Dir(k, d).src, 1, n),
                                      !.rd = @ \o SubSeq(Dir(k, d).src, 1, n),
                                      !.src = Tail_n(@, n)])
    /\ UNCHANGED <<FORWARD_RULES, RULES_LOADED, FORWARD_CONTROLLERS, rules_file, next_id,
                   servers, calls>>
    /\ UNCHANGED <<nc_vars, scan_vars>>

\* read returns 0: the peer has sent everything and closed its side
copy_loop_read_eof(k, d) ==
    /\ conns[k].pc = "relay"
    /\ Dir(k, d).pc = "read"
    /\ Dir(k, d).src = <<>>
    /\ SetDir(k, d, [Dir(k, d) EXCEPT !.pc = "shutdown", !.why = "eof"])
    /\ UNCHANGED <<FORWARD_RULES, RULES_LOADED, FORWARD_CONTROLLERS, rules_file, next_id,
                   controllers, servers, calls>>
    /\ UNCHANGED <<nc_vars, scan_vars>>

\* read returns an error
copy_loop_read_err(k, d) ==
    /\ conns[k].pc = "relay"
    /\ Dir(k, d).pc = "read"
    /\ SetDir(k, d, [Dir(k, d) EXCEPT !.pc = "shutdown", !.why = "read_err"])
    /\ UNCHANGED <<FORWARD_RULES, RULES_LOADED, FORWARD_CONTROLLERS, rules_file, next_id,
                   controllers, servers, calls>>
    /\ UNCHANGED <<nc_vars, scan_vars>>

\* a copy loop that calls write instead of write_all: one byte goes out, the rest is lost
copy_loop_write_ok_Short(k, d) ==
    /\ conns[k].pc = "relay"
    /\ Dir(k, d).pc = "write"
    /\ SetDir(k, d, [Dir(k, d) EXCEPT !.pc = "read", !.wr = @ \o SubSeq(Dir(k, d).chunk, 1, 1),
                                      !.chunk = <<>>])
    /\ UNCHANGED <<FORWARD_RULES, RULES_LOADED, FORWARD_CONTROLLERS, rules_file, next_id,
                   controllers, servers, calls>>
    /\ UNCHANGED <<nc_vars, scan_vars>>

\* write_all writes &buf[..n] to the peer
copy_loop_write_ok(k, d) ==
    /\ conns[k].pc = "relay"
    /\ Dir(k, d).pc = "write"
    /\ SetDir(k, d, [Dir(k, d) EXCEPT !.pc = "read", !.wr = @ \o Dir(k, d).chunk, !.chunk = <<>>])
    /\ UNCHANGED <<FORWARD_RULES, RULES_LOADED, FORWARD_CONTROLLERS, rules_file, next_id,
                   controllers, servers, calls>>
    /\ UNCHANGED <<nc_vars, scan_vars>>

\* write_all fails after j < n bytes of the chunk have gone out
copy_loop_write_err(k, d, j) ==
    /\ conns[k].pc = "relay"
    /\ Dir(k, d).pc = "write"
    /\ j \in 0..(Len(Dir(k, d).chunk) - 1)
    /\ SetDir(k, d, [Dir(k, d) EXCEPT !.pc = "shutdown", !.why = "write_err",
                                      !.wr = @ \o SubSeq(Dir(k, d).chunk, 1, j), !.chunk = <<>>])
    /\ UNCHANGED <<FORWARD_RULES, RULES_LOADED, FORWARD_CONTROLLERS, rules_file, next_id,
                   controllers, servers, calls>>
    /\ UNCHANGED <<nc_vars, scan_vars>>

\* after the loop: shutdown() of the write half this direction was writing to
copy_loop_shutdown(k, d) ==
    /\ conns[k].pc = "relay"
    /\ Dir(k, d).pc = "shutdown"
    /\ SetDir(k, d, [Dir(k, d) EXCEPT !.pc = "end"])
    /\ UNCHANGED <<FORWARD_RULES, RULES_LOADED, FORWARD_CONTROLLERS, rules_file, next_id,
                   controllers, servers, calls>>
    /\ UNCHANGED <<nc_vars, scan_vars>>

\* a relay built on select!: it returns as soon as one direction has ended
handle_connection_join_Select(k) ==
    /\ conns[k].pc = "relay"
    /\ (conns[k].c2s.pc = "end" \/ conns[k].s2c.pc = "end")
    /\ conns' = [conns EXCEPT ![k].pc = "dec"]
    /\ UNCHANGED <<FORWARD_RULES, RULES_LOADED, FORWARD_CONTROLLERS, rules_file, next_id,
                   controllers, servers, calls>>
    /\ UNCHANGED <<nc_vars, scan_vars>>

\* tokio::join! returns when both directions have ended; handle_connection returns Ok(())
handle_connection_join(k) ==
    /\ conns[k].pc = "relay"
    /\ conns[k].c2s.pc = "end"
    /\ conns[k].s2c.pc = "end"
    /\ conns' = [conns EXCEPT ![k].pc = "dec"]
    /\ UNCHANGED <<FORWARD_RULES, RULES_LOADED, FORWARD_CONTROLLERS, rules_file, next_id,
                   controllers, servers, calls>>
    /\ UNCHANGED <<nc_vars, scan_vars>>

\* ctrl.dec_connections()
connection_task_dec(k) ==
    /\ conns[k].pc = "dec"
    /\ controllers' = [controllers EXCEPT ![conns[k].server] = dec_connections(@)]
    /\ conns' = [conns EXCEPT ![k].pc = "stats2"]
    /\ UNCHANGED <<FORWARD_RULES, RULES_LOADED, FORWARD_CONTROLLERS, rules_file, next_id,
                   servers, calls>>
    /\ UNCHANGED <<nc_vars, scan_vars>>

----------------------------------------------------------------------------
(* get_forward_rule, get_forward_rules *)

get_forward_rule_invoke(c, id) ==
    /\ CanInvoke(c)
    /\ ensure_rules_loaded
    /\ SetCall(c, [NewCall("get_rule", id, NoInput, "get_stats") EXCEPT !.ids = {id}])
    /\ UNCHANGED <<FORWARD_CONTROLLERS, rules_file, next_id, controllers, servers, conns>>
    /\ UNCHANGED <<nc_vars, scan_vars>>

get_forward_rules_invoke(c) ==
    /\ CanInvoke(c)
    /\ ensure_rules_loaded
    /\ SetCall(c, NewCall("get_rules", 0, NoInput, "get_ids"))
    /\ UNCHANGED <<FORWARD_CONTROLLERS, rules_file, next_id, controllers, servers, conns>>
    /\ UNCHANGED <<nc_vars, scan_vars>>

\* get_forward_rules: the ids of the rules whose status is "running"
RunningIds(rules) == {id \in DOMAIN rules : rules[id].status = "running"}

get_forward_rules_ids(c) ==
    /\ calls[c].pc = "get_ids"
    /\ SetCall(c, [calls[c] EXCEPT !.ids = RunningIds(FORWARD_RULES), !.pc = "get_stats"])
    /\ UNCHANGED <<FORWARD_RULES, RULES_LOADED, FORWARD_CONTROLLERS, rules_file, next_id,
                   controllers, servers, conns>>
    /\ UNCHANGED <<nc_vars, scan_vars>>

\* update_rule_stats(&id) of a getter, first lock section; get_forward_rules takes the ids
\* in the order the Vec it collected from the HashMap has them, which is any order
get_update_rule_stats_read(c, id) ==
    /\ calls[c].pc = "get_stats"
    /\ id \in calls[c].ids
    /\ LET st == LookupStats(id)
       IN SetCall(c, IF st.some
                     THEN [calls[c] EXCEPT !.rule_id = id, !.stats = st, !.pc = "get_write"]
                     ELSE [calls[c] EXCEPT !.rule_id = id, !.ids = @ \ {id}])
    /\ UNCHANGED <<FORWARD_RULES, RULES_LOADED, FORWARD_CONTROLLERS, rules_file, next_id,
                   controllers, servers, conns>>
    /\ UNCHANGED <<nc_vars, scan_vars>>

\* update_rule_stats(&id) of a getter, second lock section
get_update_rule_stats_write(c) ==
    /\ calls[c].pc = "get_write"
    /\ FORWARD_RULES' = StoreStats(FORWARD_RULES, calls[c].rule_id, calls[c].stats)
    /\ SetCall(c, [calls[c] EXCEPT !.ids = @ \ {calls[c].rule_id}, !.pc = "get_stats"])
    /\ UNCHANGED <<RULES_LOADED, FORWARD_CONTROLLERS, rules_file, next_id,
                   controllers, servers, conns>>
    /\ UNCHANGED <<nc_vars, scan_vars>>

\* what the getter returns: rules.get(&rule_id).cloned(), or every rule of the registry
GetValue(call, rules) ==
    IF call.op = "get_rules" THEN rules
    ELSE [id \in {call.rule_id} \cap DOMAIN rules |-> rules[id]]

\* the last lock section of both getters
get_forward_rule_return(c) ==
    /\ calls[c].pc = "get_stats"
    /\ calls[c].ids = {}
    /\ SetCall(c, [Returned(calls[c], "ok") EXCEPT !.value = GetValue(calls[c], FORWARD_RULES)])
    /\ UNCHANGED <<FORWARD_RULES, RULES_LOADED, FORWARD_CONTROLLERS, rules_file, next_id,
                   controllers, servers, conns>>
    /\ UNCHANGED <<nc_vars, scan_vars>>

----------------------------------------------------------------------------
(* Netcat engine: values *)

\* Option<T>: None is the empty sequence, Some(v) is <<v>>
None == <<>>

Some(v) == <<v>>

\* hosts of a session: "127.0.0.1" parses as the host of a SocketAddr, "localhost" only resolves
Hosts == {"127.0.0.1", "localhost"}

NetcatSessionInput ==
    [protocol : {"tcp", "udp"}, mode : {"client", "server"}, host : Hosts, port : {1},
     auto_reconnect : {None}]

\* Option::unwrap_or
unwrap_or(opt, default) == IF opt = None THEN default ELSE opt[1]

\* SessionState::new(session) around the NetcatSession that netcat_create_session builds
NewSession(input) ==
    [protocol |-> input.protocol, mode |-> input.mode, host |-> input.host, port |-> input.port,
     auto_reconnect |-> unwrap_or(input.auto_reconnect, FALSE),
     status |-> "disconnected", error_message |-> None,
     bytes_sent |-> 0, bytes_received |-> 0, message_count |-> 0, client_count |-> 0,
     messages |-> <<>>, clients |-> {}, shutdown_tx |-> None]

NetcatSessionConfig(s) ==
    [protocol |-> s.protocol, mode |-> s.mode, host |-> s.host, port |-> s.port,
     auto_reconnect |-> s.auto_reconnect]

\* mpsc::channel::<()>(1): the unit queued in it, its one Sender and its Receiver
NewShutdownChannel == [queued |-> FALSE, tx_alive |-> TRUE, rx_alive |-> TRUE]

\* a send channel, and the bytes its send task has written to the peer so far
NewSendChannel == [queue |-> <<>>, tx_alive |-> TRUE, rx_alive |-> TRUE, written |-> <<>>]

\* dropping the Sender of a channel (dropping None drops nothing)
DropSender(chans, opt) ==
    IF opt = None THEN chans ELSE [chans EXCEPT ![opt[1]].tx_alive = FALSE]

\* shutdown_rx.recv() is ready: a unit is queued, or the Sender is gone and recv() yields None
ShutdownReady(ch) == shutdown_channels[ch].queued \/ ~shutdown_channels[ch].tx_alive

\* a log that evicts the newest message when it is longer than the cap
PushMessage_DropNewest(log, msg) ==
    LET pushed == Append(log, msg)
    IN IF Len(pushed) > MsgCap THEN SubSeq(pushed, 1, MsgCap) ELSE pushed

\* push the message, then evict the oldest one when the log is longer than the cap
PushMessage(log, msg) ==
    LET pushed == Append(log, msg)
    IN IF Len(pushed) > MsgCap THEN Tail(pushed) ELSE pushed

\* SendMessageInput without its session id
NoSend == [data |-> <<>>, format |-> "text", target_client |-> None, broadcast |-> None]

\* a netcat command in flight: its arguments, the locals it holds between lock sections,
\* and whether it has sent a shutdown signal
NcIdleCall == [op |-> "none", pc |-> "idle", session_id |-> 0, input |-> NoSend,
               data |-> <<>>, tx |-> None, stopped |-> FALSE, result |-> "none"]

NcInit ==
    /\ sessions = EmptyMap
    /\ sessions_file = EmptyMap
    /\ nc_next_id = 1
    /\ TCP_SENDERS = EmptyMap
    /\ SERVER_CLIENTS = EmptyMap
    /\ UDP_SOCKETS = EmptyMap
    /\ shutdown_channels = <<>>
    /\ send_channels = <<>>
    /\ tasks = <<>>
    /\ nc_calls = [c \in Callers |-> NcIdleCall]

----------------------------------------------------------------------------
(* Netcat engine: payload conversions (mod.rs, tcp_client.rs) *)

\* a string is the sequence of its characters; the printable ASCII characters, from the
\* space (code 32) to the tilde (code 126), the double quote, the backslash and the backtick by name
AsciiChars ==
    <<" ", "!", "dquote", "#", "$", "%", "&", "'", "(", ")", "*", "+", ",", "-", ".", "/",
      "0", "1", "2", "3", "4", "5", "6", "7", "8", "9", ":", ";", "<", "=", ">", "?",
      "@", "A", "B", "C", "D", "E", "F", "G", "H", "I", "J", "K", "L", "M", "N", "O",
      "P", "Q", "R", "S", "T", "U", "V", "W", "X", "Y", "Z", "[", "backslash", "]", "^", "_",
      "backtick", "a", "b", "c", "d", "e", "f", "g", "h", "i", "j", "k", "l", "m", "n", "o",
      "p", "q", "r", "s", "t", "u", "v", "w", "x", "y", "z", "{", "|", "}", "~">>

\* the characters are those of AsciiChars and the line feed, written "newline"
CharCode(c) == IF c = "newline" THEN 10
               ELSE 31 + (CHOOSE i \in 1..Len(AsciiChars) : AsciiChars[i] = c)

CharOf(code) == IF code = 10 THEN "newline" ELSE AsciiChars[code - 31]

\* str::as_bytes of a string of ASCII characters
as_bytes(s) == [i \in 1..Len(s) |-> CharCode(s[i])]

is_ascii_hexdigit(c) ==
    LET code == CharCode(c)
    IN (48 <= code /\ code <= 57) \/ (65 <= code /\ code <= 70) \/ (97 <= code /\ code <= 102)

\* char::is_whitespace, on the ASCII characters
is_whitespace(c) == CharCode(c) = 32 \/ (9 <= CharCode(c) /\ CharCode(c) <= 13)

\* the value of a hexadecimal digit
HexDigitValue(c) ==
    LET code == CharCode(c)
    IN IF code <= 57 THEN code - 48 ELSE IF code <= 70 THEN code - 55 ELSE code - 87

RECURSIVE replace(_, _)
\* str::replace(pat, ""): the matches of pat, found from left to right without overlap,
\* are removed
replace(s, pat) ==
    IF Len(s) < Len(pat) THEN s
    ELSE IF SubSeq(s, 1, Len(pat)) = pat THEN replace(SubSeq(s, Len(pat) + 1, Len(s)), pat)
    ELSE <<Head(s)>> \o replace(Tail(s), pat)

\* u8::from_str_radix(&hex_str[i..i + 2], 16) on two hexadecimal digits
from_str_radix(pair) == 16 * HexDigitValue(pair[1]) + HexDigitValue(pair[2])

ParseOk(bytes) == [ok |-> TRUE, bytes |-> bytes]

ParseErr == [ok |-> FALSE, bytes |-> <<>>]

parse_input_data_Truncate(data, format) ==
    IF format = "text" THEN ParseOk(as_bytes(data))
    ELSE LET cleaned == SelectSeq(replace(replace(data, <<"0", "x">>), <<"0", "X">>),
                                  LAMBDA c : is_ascii_hexdigit(c) \/ is_whitespace(c))
             hex_str == SelectSeq(cleaned, LAMBDA c : ~is_whitespace(c))
         IN ParseOk([i \in 1..(Len(hex_str) \div 2) |->
                        from_str_radix(SubSeq(hex_str, 2 * i - 1, 2 * i))])

\* parse_input_data, for the Text and Hex formats
parse_input_data(data, format) ==
    IF format = "text" THEN ParseOk(as_bytes(data))
    ELSE LET cleaned == SelectSeq(replace(replace(data, <<"0", "x">>), <<"0", "X">>),
                                  LAMBDA c : is_ascii_hexdigit(c) \/ is_whitespace(c))
             hex_str == SelectSeq(cleaned, LAMBDA c : ~is_whitespace(c))
         IN IF Len(hex_str) % 2 # 0 THEN ParseErr
            ELSE ParseOk([i \in 1..(Len(hex_str) \div 2) |->
                              from_str_radix(SubSeq(hex_str, 2 * i - 1, 2 * i))])

HexUpper == <<"0", "1", "2", "3", "4", "5", "6", "7", "8", "9", "A", "B", "C", "D", "E", "F">>

\* format!("{:X}", b): no zero in front of a single digit
FormatByte_NoPad(b) ==
    IF b < 16 THEN <<HexUpper[b + 1]>> ELSE <<HexUpper[(b \div 16) + 1], HexUpper[(b % 16) + 1]>>

\* format!("{:02X}", b)
FormatByte(b) == <<HexUpper[(b \div 16) + 1], HexUpper[(b % 16) + 1]>>

RECURSIVE JoinHex(_)
\* the bytes in two uppercase hexadecimal digits each, joined by spaces
JoinHex(bytes) ==
    IF bytes = <<>> THEN <<>>
    ELSE IF Len(bytes) = 1 THEN FormatByte(bytes[1])
    ELSE FormatByte(bytes[1]) \o <<" ">> \o JoinHex(Tail(bytes))

\* String::from_utf8 succeeds; exact on sequences of ASCII bytes and of the bytes 0xC0,
\* 0xC1 and 0xF5 to 0xFF, which no UTF-8 text contains
IsUtf8(bytes) == \A i \in 1..Len(bytes) : bytes[i] < 128

\* bytes_to_display_string: the text when the bytes are UTF-8, else the hexadecimal dump
bytes_to_display_string(bytes) ==
    IF IsUtf8(bytes) THEN [i \in 1..Len(bytes) |-> CharOf(bytes[i])] ELSE JoinHex(bytes)

----------------------------------------------------------------------------
(* Netcat engine: addresses *)

\* "host:port".parse::<SocketAddr>() succeeds only for an IP literal
ParsesAsSocketAddr(host) == host = "127.0.0.1"

SocketAddr(host, port) == [host |-> host, port |-> port]

\* the address datagrams of a peer come from
PeerAddr == SocketAddr("127.0.0.1", 9)

\* the peers of SpecPeers: three with IPv4 addresses; three with IPv6 addresses, of which
\* one is the IPv4 peer 1.2.3.4 as a dual-stack socket sees it, one the IPv6 address with
\* the groups 0, 0, 0, ffff, 1, 2, 3, 4
PeerAddrs ==
    {SocketAddr("127.0.0.1", 8), SocketAddr("127.0.0.1", 9), SocketAddr("127.0.0.2", 9),
     SocketAddr("::1", 9), SocketAddr("::ffff:1.2.3.4", 9), SocketAddr("::ffff:1:2:3:4", 9)}

\* the characters of the hosts of PeerAddrs, as Ipv4Addr and Ipv6Addr display them
HostChars(host) ==
    CASE host = "127.0.0.1" -> <<"1", "2", "7", ".", "0", ".", "0", ".", "1">>
      [] host = "127.0.0.2" -> <<"1", "2", "7", ".", "0", ".", "0", ".", "2">>
      [] host = "::1" -> <<":", ":", "1">>
      [] host = "::ffff:1.2.3.4" ->
             <<":", ":", "f", "f", "f", "f", ":", "1", ".", "2", ".", "3", ".", "4">>
      [] host = "::ffff:1:2:3:4" ->
             <<":", ":", "f", "f", "f", "f", ":", "1", ":", "2", ":", "3", ":", "4">>

\* the host is an IPv6 address (in a bind address it is written in brackets)
IsIpv6(host) == host \in {"[::]", "::1", "::ffff:1.2.3.4", "::ffff:1:2:3:4"}

RECURSIVE DecimalChars(_)
\* the decimal digits of a number
DecimalChars(n) ==
    IF n < 10 THEN <<CharOf(48 + n)>> ELSE DecimalChars(n \div 10) \o <<CharOf(48 + (n % 10))>>

\* SocketAddr::to_string: "host:port" for IPv4, "[host]:port" for IPv6
addr_to_string(addr) ==
    IF IsIpv6(addr.host)
    THEN <<"[">> \o HostChars(addr.host) \o <<"]", ":">> \o DecimalChars(addr.port)
    ELSE HostChars(addr.host) \o <<":">> \o DecimalChars(addr.port)

\* str::replace([a, b], to) with a one-character replacement
replace_chars(str, pats, to) == [i \in 1..Len(str) |-> IF str[i] \in pats THEN to ELSE str[i]]

----------------------------------------------------------------------------
(* Netcat engine: commands on sessions *)

\* a returned call keeps its arguments and its result, not its locals
NcReturned(call, res) == [call EXCEPT !.pc = "done", !.result = res, !.data = <<>>, !.tx = None]

NcCanInvoke(c) == nc_calls[c].pc \in {"idle", "done"}

NcNewCall(o, id, p) == [NcIdleCall EXCEPT !.op = o, !.pc = p, !.session_id = id]

NcSetCall(c, rec) == nc_calls' = [nc_calls EXCEPT ![c] = rec]

\* a task of the engine: its code position, its session, the shutdown channel whose
\* Receiver it holds, the send channel it serves, the client it belongs to, the default
\* target of a UDP send task and the chunk a spawned receive handler carries
NewTask(kind, id) == [kind |-> kind, pc |-> "begin", session |-> id, sd |-> 0, ch |-> 0,
                      client |-> 0, target |-> None, data |-> <<>>]

\* the entry of a sender table, as an Option
Lookup(table, k) == IF k \in DOMAIN table THEN Some(table[k]) ELSE None

\* netcat_create_session: build the session, insert it in the manager
netcat_create_session(c, input) ==
    /\ NcCanInvoke(c)
    /\ Cardinality(DOMAIN sessions) < MaxSessions
    /\ sessions' = Insert(sessions, nc_next_id, NewSession(input))
    /\ nc_next_id' = nc_next_id + 1
    /\ NcSetCall(c, NcNewCall("create", nc_next_id, "create_save"))
    /\ UNCHANGED <<sessions_file, TCP_SENDERS, SERVER_CLIENTS, UDP_SOCKETS,
                   shutdown_channels, send_channels, tasks>>
    /\ UNCHANGED <<fwd_vars, scan_vars>>

\* the SessionState that load_sessions builds from a saved configuration
LoadedSession(cfg) ==
    [protocol |-> cfg.protocol, mode |-> cfg.mode, host |-> cfg.host, port |-> cfg.port,
     auto_reconnect |-> cfg.auto_reconnect,
     status |-> "disconnected", error_message |-> None,
     bytes_sent |-> 0, bytes_received |-> 0, message_count |-> 0, client_count |-> 0,
     messages |-> <<>>, clients |-> {}, shutdown_tx |-> None]

\* load_sessions: every configuration of the file is inserted under its id, in place of
\* the session the manager holds under that id
load_sessions(ss, file) ==
    [id \in DOMAIN ss \cup DOMAIN file |->
        IF id \in DOMAIN file THEN LoadedSession(file[id]) ELSE ss[id]]

\* netcat_init: load_sessions under the write lock of the manager
netcat_init(c) ==
    /\ NcCanInvoke(c)
    /\ sessions' = load_sessions(sessions, sessions_file)
    /\ NcSetCall(c, NcReturned(NcNewCall("init", 0, "init"), "ok"))
    /\ UNCHANGED <<sessions_file, nc_next_id, TCP_SENDERS, SERVER_CLIENTS, UDP_SOCKETS,
                   shutdown_channels, send_channels, tasks>>
    /\ UNCHANGED <<fwd_vars, scan_vars>>

\* save_sessions succeeds: the file holds the configuration of every session
save_sessions_ok(c) ==
    /\ nc_calls[c].pc = "create_save"
    /\ sessions_file' = [id \in DOMAIN sessions |-> NetcatSessionConfig(sessions[id])]
    /\ NcSetCall(c, NcReturned(nc_calls[c], "ok"))
    /\ UNCHANGED <<sessions, nc_next_id, TCP_SENDERS, SERVER_CLIENTS, UDP_SOCKETS,
                   shutdown_channels, send_channels, tasks>>
    /\ UNCHANGED <<fwd_vars, scan_vars>>

\* save_sessions fails: the command returns the error, the session stays in the manager
save_sessions_err(c) ==
    /\ nc_calls[c].pc = "create_save"
    /\ NcSetCall(c, NcReturned(nc_calls[c], "err_save"))
    /\ UNCHANGED <<sessions, sessions_file, nc_next_id, TCP_SENDERS, SERVER_CLIENTS,
                   UDP_SOCKETS, shutdown_channels, send_channels, tasks>>
    /\ UNCHANGED <<fwd_vars, scan_vars>>

\* the task netcat_start_session spawns for a session
StartTaskKind(s) ==
    IF s.protocol = "udp" THEN "udp"
    ELSE IF s.mode = "client" THEN "tcp_client" ELSE "tcp_server"

StartTaskKinds == {"tcp_client", "tcp_server", "udp"}

\* the start tasks spawned so far
StartTasks == {t \in 1..Len(tasks) : tasks[t].kind \in StartTaskKinds}

\* netcat_start_session: look the session up, read its configuration (which no code
\* changes after creation) and spawn the task of its protocol and mode
netcat_start_session(c, id, maxStarts) ==
    /\ NcCanInvoke(c)
    /\ IF id \in DOMAIN sessions
       THEN /\ Cardinality(StartTasks) < maxStarts
            /\ tasks' = Append(tasks, NewTask(StartTaskKind(sessions[id]), id))
            /\ NcSetCall(c, NcReturned(NcNewCall("start", id, "start"), "ok"))
       ELSE /\ tasks' = tasks
            /\ NcSetCall(c, NcReturned(NcNewCall("start", id, "start"), "err_notfound"))
    /\ UNCHANGED <<sessions, sessions_file, nc_next_id, TCP_SENDERS, SERVER_CLIENTS,
                   UDP_SOCKETS, shutdown_channels, send_channels>>
    /\ UNCHANGED <<fwd_vars, scan_vars>>

\* netcat_stop_session -> stop_session_internal: look the session up
netcat_stop_session(c, id) ==
    /\ NcCanInvoke(c)
    /\ NcSetCall(c, IF id \in DOMAIN sessions THEN NcNewCall("stop", id, "stop_take")
                    ELSE NcReturned(NcNewCall("stop", id, "stop_take"), "err_notfound"))
    /\ UNCHANGED <<sessions, sessions_file, nc_next_id, TCP_SENDERS, SERVER_CLIENTS,
                   UDP_SOCKETS, shutdown_channels, send_channels, tasks>>
    /\ UNCHANGED <<fwd_vars, scan_vars>>

\* s.shutdown_tx.take()
stop_session_take(c) ==
    /\ nc_calls[c].pc = "stop_take"
    /\ LET id == nc_calls[c].session_id
           tx == sessions[id].shutdown_tx
       IN /\ sessions' = [sessions EXCEPT ![id].shutdown_tx = None]
          /\ NcSetCall(c, [nc_calls[c] EXCEPT !.tx = tx,
                                             !.pc = IF tx = None THEN "stop_status"
                                                    ELSE "stop_send"])
    /\ UNCHANGED <<sessions_file, nc_next_id, TCP_SENDERS, SERVER_CLIENTS, UDP_SOCKETS,
                   shutdown_channels, send_channels, tasks>>
    /\ UNCHANGED <<fwd_vars, scan_vars>>

\* tx.send(()).await, then tx goes out of scope: the unit is queued when the Receiver is
\* alive, and the Sender is dropped
stop_session_send(c) ==
    /\ nc_calls[c].pc = "stop_send"
    /\ LET ch == nc_calls[c].tx[1]
       IN shutdown_channels' =
              [shutdown_channels EXCEPT ![ch].queued = shutdown_channels[ch].rx_alive,
                                        ![ch].tx_alive = FALSE]
    /\ NcSetCall(c, [nc_calls[c] EXCEPT !.tx = None, !.stopped = TRUE, !.pc = "stop_status"])
    /\ UNCHANGED <<sessions, sessions_file, nc_next_id, TCP_SENDERS, SERVER_CLIENTS,
                   UDP_SOCKETS, send_channels, tasks>>
    /\ UNCHANGED <<fwd_vars, scan_vars>>

\* force the status: Disconnected, no error message
stop_session_status(c) ==
    /\ nc_calls[c].pc = "stop_status"
    /\ sessions' = [sessions EXCEPT ![nc_calls[c].session_id].status = "disconnected",
                                    ![nc_calls[c].session_id].error_message = None]
    /\ NcSetCall(c, [nc_calls[c] EXCEPT !.pc = "stop_senders"])
    /\ UNCHANGED <<sessions_file, nc_next_id, TCP_SENDERS, SERVER_CLIENTS, UDP_SOCKETS,
                   shutdown_channels, send_channels, tasks>>
    /\ UNCHANGED <<fwd_vars, scan_vars>>

\* TCP_SENDERS.write().await.remove(session_id), and the command returns
stop_session_senders(c) ==
    /\ nc_calls[c].pc = "stop_senders"
    /\ TCP_SENDERS' = Remove(TCP_SENDERS, nc_calls[c].session_id)
    /\ send_channels' = DropSender(send_channels, Lookup(TCP_SENDERS, nc_calls[c].session_id))
    /\ NcSetCall(c, NcReturned(nc_calls[c], "ok"))
    /\ UNCHANGED <<sessions, sessions_file, nc_next_id, SERVER_CLIENTS, UDP_SOCKETS,
                   shutdown_channels, tasks>>
    /\ UNCHANGED <<fwd_vars, scan_vars>>


----------------------------------------------------------------------------
(* Netcat engine: TCP client (tcp_client.rs) *)

\* update_status of tcp_client.rs: Disconnected and Error also drop the shutdown Sender
update_status(ss, id, status, error) ==
    [ss EXCEPT ![id].status = status,
               ![id].error_message = error,
               ![id].shutdown_tx = IF status \in {"disconnected", "error"} THEN None ELSE @]

\* the shutdown channels after update_status(.., status, ..) on session id
update_status_channels(id, status) ==
    IF status \in {"disconnected", "error"}
    THEN DropSender(shutdown_channels, sessions[id].shutdown_tx)
    ELSE shutdown_channels

\* the NetcatMessage of a received chunk
Received(data, client, addr) ==
    [direction |-> "received", data |-> bytes_to_display_string(data), size |-> Len(data), client_id |-> client,
     client_addr |-> addr]

\* handle_received_data of tcp_client.rs and of tcp_server.rs: count the chunk and log it
\* (the write lock is taken within its 5 s timeout: no lock section of the engine waits)
handle_received_data(ss, id, data, client, addr) ==
    [ss EXCEPT ![id].bytes_received = @ + Len(data),
               ![id].message_count = @ + 1,
               ![id].messages = PushMessage(@, Received(data, client, addr))]

SetTask(t, rec) == [tasks EXCEPT ![t] = rec]

\* update_status(Connecting, None)
tcp_client_connecting(t) ==
    /\ tasks[t].kind = "tcp_client" /\ tasks[t].pc = "begin"
    /\ sessions' = update_status(sessions, tasks[t].session, "connecting", None)
    /\ tasks' = SetTask(t, [tasks[t] EXCEPT !.pc = "connect"])
    /\ UNCHANGED <<sessions_file, nc_next_id, TCP_SENDERS, SERVER_CLIENTS, UDP_SOCKETS,
                   shutdown_channels, send_channels, nc_calls>>
    /\ UNCHANGED <<fwd_vars, scan_vars>>

ConnectErrors == {"connect failed", "connect timed out"}

\* the connect fails or times out: update_status(Error, Some(err_msg)), return Err
tcp_client_connect_err(t, msg) ==
    /\ tasks[t].kind = "tcp_client" /\ tasks[t].pc = "connect"
    /\ sessions' = update_status(sessions, tasks[t].session, "error", Some(msg))
    /\ shutdown_channels' = update_status_channels(tasks[t].session, "error")
    /\ tasks' = SetTask(t, [tasks[t] EXCEPT !.pc = "done"])
    /\ UNCHANGED <<sessions_file, nc_next_id, TCP_SENDERS, SERVER_CLIENTS, UDP_SOCKETS,
                   send_channels, nc_calls>>
    /\ UNCHANGED <<fwd_vars, scan_vars>>

\* the connect succeeds: status Connected, no error message
tcp_client_connect_ok(t) ==
    /\ tasks[t].kind = "tcp_client" /\ tasks[t].pc = "connect"
    /\ sessions' = [sessions EXCEPT ![tasks[t].session].status = "connected",
                                    ![tasks[t].session].error_message = None]
    /\ tasks' = SetTask(t, [tasks[t] EXCEPT !.pc = "install_shutdown"])
    /\ UNCHANGED <<sessions_file, nc_next_id, TCP_SENDERS, SERVER_CLIENTS, UDP_SOCKETS,
                   shutdown_channels, send_channels, nc_calls>>
    /\ UNCHANGED <<fwd_vars, scan_vars>>

\* state.shutdown_tx = Some(shutdown_tx) with a new channel (in all three start functions):
\* the Sender that was stored before is dropped
install_shutdown(t) ==
    /\ tasks[t].kind \in StartTaskKinds /\ tasks[t].pc = "install_shutdown"
    /\ shutdown_channels' =
           Append(DropSender(shutdown_channels, sessions[tasks[t].session].shutdown_tx),
                  NewShutdownChannel)
    /\ sessions' = [sessions EXCEPT
                       ![tasks[t].session].shutdown_tx = Some(Len(shutdown_channels) + 1)]
    /\ tasks' = SetTask(t, [tasks[t] EXCEPT
                               !.sd = Len(shutdown_channels) + 1,
                               !.pc = IF tasks[t].kind = "tcp_server" THEN "loop"
                                      ELSE "install_sender"])
    /\ UNCHANGED <<sessions_file, nc_next_id, TCP_SENDERS, SERVER_CLIENTS, UDP_SOCKETS,
                   send_channels, nc_calls>>
    /\ UNCHANGED <<fwd_vars, scan_vars>>

\* TCP_SENDERS.insert(session_id, send_tx) with a new channel, then the read task and the
\* send task are spawned; start_tcp_client only waits for the read task after this
tcp_client_install_sender(t) ==
    /\ tasks[t].kind = "tcp_client" /\ tasks[t].pc = "install_sender"
    /\ LET id == tasks[t].session
           ch == Len(send_channels) + 1
       IN /\ send_channels' = Append(DropSender(send_channels, Lookup(TCP_SENDERS, id)),
                                     NewSendChannel)
          /\ TCP_SENDERS' = Insert(TCP_SENDERS, id, ch)
          /\ tasks' = SetTask(t, [tasks[t] EXCEPT !.pc = "done"])
                      \o <<[NewTask("client_read", id) EXCEPT !.pc = "read", !.sd = tasks[t].sd],
                           [NewTask("client_send", id) EXCEPT !.pc = "recv", !.ch = ch]>>
    /\ UNCHANGED <<sessions, sessions_file, nc_next_id, SERVER_CLIENTS, UDP_SOCKETS,
                   shutdown_channels, nc_calls>>
    /\ UNCHANGED <<fwd_vars, scan_vars>>

\* select!: shutdown_rx.recv() completes (with the unit, or with None), the loop breaks
client_read_shutdown(t) ==
    /\ tasks[t].kind = "client_read" /\ tasks[t].pc = "read"
    /\ ShutdownReady(tasks[t].sd)
    /\ shutdown_channels' = [shutdown_channels EXCEPT ![tasks[t].sd].queued = FALSE]
    /\ tasks' = SetTask(t, [tasks[t] EXCEPT !.pc = "cleanup"])
    /\ UNCHANGED <<sessions, sessions_file, nc_next_id, TCP_SENDERS, SERVER_CLIENTS,
                   UDP_SOCKETS, send_channels, nc_calls>>
    /\ UNCHANGED <<fwd_vars, scan_vars>>

\* a read task that, at EOF, starts a new attempt for a session with auto_reconnect
client_read_eof_Reconnect(t) ==
    /\ tasks[t].kind = "client_read" /\ tasks[t].pc = "read"
    /\ sessions' = update_status(sessions, tasks[t].session, "disconnected", None)
    /\ shutdown_channels' = update_status_channels(tasks[t].session, "disconnected")
    /\ tasks' = IF sessions[tasks[t].session].auto_reconnect
                THEN Append(SetTask(t, [tasks[t] EXCEPT !.pc = "cleanup"]),
                            NewTask("tcp_client", tasks[t].session))
                ELSE SetTask(t, [tasks[t] EXCEPT !.pc = "cleanup"])
    /\ UNCHANGED <<sessions_file, nc_next_id, TCP_SENDERS, SERVER_CLIENTS, UDP_SOCKETS,
                   send_channels, nc_calls>>
    /\ UNCHANGED <<fwd_vars, scan_vars>>

\* read returns Ok(0): update_status(Disconnected, None), break
client_read_eof(t) ==
    /\ tasks[t].kind = "client_read" /\ tasks[t].pc = "read"
    /\ sessions' = update_status(sessions, tasks[t].session, "disconnected", None)
    /\ shutdown_channels' = update_status_channels(tasks[t].session, "disconnected")
    /\ tasks' = SetTask(t, [tasks[t] EXCEPT !.pc = "cleanup"])
    /\ UNCHANGED <<sessions_file, nc_next_id, TCP_SENDERS, SERVER_CLIENTS, UDP_SOCKETS,
                   send_channels, nc_calls>>
    /\ UNCHANGED <<fwd_vars, scan_vars>>

\* read returns Err: update_status(Error, Some(err_msg)), break
client_read_err(t) ==
    /\ tasks[t].kind = "client_read" /\ tasks[t].pc = "read"
    /\ sessions' = update_status(sessions, tasks[t].session, "error", Some("read error"))
    /\ shutdown_channels' = update_status_channels(tasks[t].session, "error")
    /\ tasks' = SetTask(t, [tasks[t] EXCEPT !.pc = "cleanup"])
    /\ UNCHANGED <<sessions_file, nc_next_id, TCP_SENDERS, SERVER_CLIENTS, UDP_SOCKETS,
                   send_channels, nc_calls>>
    /\ UNCHANGED <<fwd_vars, scan_vars>>

\* read returns Ok(n): handle_received_data(.., data, None)
client_read_data(t, data, maxMsgs) ==
    /\ tasks[t].kind = "client_read" /\ tasks[t].pc = "read"
    /\ sessions[tasks[t].session].message_count < maxMsgs
    /\ sessions' = handle_received_data(sessions, tasks[t].session, data, None, None)
    /\ UNCHANGED <<sessions_file, nc_next_id, TCP_SENDERS, SERVER_CLIENTS, UDP_SOCKETS,
                   shutdown_channels, send_channels, tasks, nc_calls>>
    /\ UNCHANGED <<fwd_vars, scan_vars>>

\* after the loop: TCP_SENDERS.remove(session_id); the task ends and drops shutdown_rx
client_read_cleanup(t) ==
    /\ tasks[t].kind = "client_read" /\ tasks[t].pc = "cleanup"
    /\ TCP_SENDERS' = Remove(TCP_SENDERS, tasks[t].session)
    /\ send_channels' = DropSender(send_channels, Lookup(TCP_SENDERS, tasks[t].session))
    /\ shutdown_channels' = [shutdown_channels EXCEPT ![tasks[t].sd].rx_alive = FALSE]
    /\ tasks' = SetTask(t, [tasks[t] EXCEPT !.pc = "done"])
    /\ UNCHANGED <<sessions, sessions_file, nc_next_id, SERVER_CLIENTS, UDP_SOCKETS, nc_calls>>
    /\ UNCHANGED <<fwd_vars, scan_vars>>

\* the send task takes a payload from its channel, writes and flushes it, counts it
client_send_write_ok(t) ==
    /\ tasks[t].kind = "client_send" /\ tasks[t].pc = "recv"
    /\ send_channels[tasks[t].ch].queue # <<>>
    /\ LET item == Head(send_channels[tasks[t].ch].queue)
       IN /\ send_channels' = [send_channels EXCEPT ![tasks[t].ch].queue = Tail(@),
                                                    ![tasks[t].ch].written = Append(@, item)]
          /\ sessions' = [sessions EXCEPT ![tasks[t].session].bytes_sent = @ + Len(item.data)]
    /\ UNCHANGED <<sessions_file, nc_next_id, TCP_SENDERS, SERVER_CLIENTS, UDP_SOCKETS,
                   shutdown_channels, tasks, nc_calls>>
    /\ UNCHANGED <<fwd_vars, scan_vars>>

\* the table without the entry of id, and the channels with that entry's Sender dropped and
\* the Receiver of the ending send task dropped
client_send_end(t) ==
    /\ TCP_SENDERS' = Remove(TCP_SENDERS, tasks[t].session)
    /\ send_channels' = [DropSender(send_channels, Lookup(TCP_SENDERS, tasks[t].session))
                            EXCEPT ![tasks[t].ch].rx_alive = FALSE,
                                   ![tasks[t].ch].queue = <<>>]
    /\ tasks' = SetTask(t, [tasks[t] EXCEPT !.pc = "done"])

\* write_all or flush fails: TCP_SENDERS.remove(session_id), break
client_send_write_err(t) ==
    /\ tasks[t].kind = "client_send" /\ tasks[t].pc = "recv"
    /\ send_channels[tasks[t].ch].queue # <<>>
    /\ client_send_end(t)
    /\ UNCHANGED <<sessions, sessions_file, nc_next_id, SERVER_CLIENTS, UDP_SOCKETS,
                   shutdown_channels, nc_calls>>
    /\ UNCHANGED <<fwd_vars, scan_vars>>

\* send_rx.recv() returns None (every Sender is gone and the queue is empty): the task
\* removes the entry of its session once more and ends
client_send_closed(t) ==
    /\ tasks[t].kind = "client_send" /\ tasks[t].pc = "recv"
    /\ send_channels[tasks[t].ch].queue = <<>>
    /\ ~send_channels[tasks[t].ch].tx_alive
    /\ client_send_end(t)
    /\ UNCHANGED <<sessions, sessions_file, nc_next_id, SERVER_CLIENTS, UDP_SOCKETS,
                   shutdown_channels, nc_calls>>
    /\ UNCHANGED <<fwd_vars, scan_vars>>

----------------------------------------------------------------------------
(* Netcat engine: TCP server (tcp_server.rs) *)

\* the TcpListener of a start_tcp_server call lives from its bind until the call returns
HoldsTcpListener(t) ==
    tasks[t].kind = "tcp_server" /\ tasks[t].pc \notin {"begin", "done"}

TcpPortBound(port) ==
    \E t \in 1..Len(tasks) : HoldsTcpListener(t) /\ sessions[tasks[t].session].port = port

\* TcpListener::bind succeeds: status Listening (the error message is left as it is)
tcp_server_bind_ok(t) ==
    /\ tasks[t].kind = "tcp_server" /\ tasks[t].pc = "begin"
    /\ ~TcpPortBound(sessions[tasks[t].session].port)
    /\ sessions' = [sessions EXCEPT ![tasks[t].session].status = "listening"]
    /\ tasks' = SetTask(t, [tasks[t] EXCEPT !.pc = "init_clients"])
    /\ UNCHANGED <<sessions_file, nc_next_id, TCP_SENDERS, SERVER_CLIENTS, UDP_SOCKETS,
                   shutdown_channels, send_channels, nc_calls>>
    /\ UNCHANGED <<fwd_vars, scan_vars>>

\* TcpListener::bind fails (always when this process listens on the port already): the
\* closure of map_err spawns a task that will set the status, start_tcp_server returns Err
tcp_server_bind_err(t) ==
    /\ tasks[t].kind = "tcp_server" /\ tasks[t].pc = "begin"
    /\ tasks' = Append(SetTask(t, [tasks[t] EXCEPT !.pc = "done"]),
                       [NewTask("bind_error", tasks[t].session) EXCEPT !.pc = "set"])
    /\ UNCHANGED <<sessions, sessions_file, nc_next_id, TCP_SENDERS, SERVER_CLIENTS,
                   UDP_SOCKETS, shutdown_channels, send_channels, nc_calls>>
    /\ UNCHANGED <<fwd_vars, scan_vars>>

\* the task spawned on a bind failure: status Error with the message
bind_error_set(t) ==
    /\ tasks[t].kind = "bind_error" /\ tasks[t].pc = "set"
    /\ sessions' = [sessions EXCEPT ![tasks[t].session].status = "error",
                                    ![tasks[t].session].error_message = Some("bind failed")]
    /\ tasks' = SetTask(t, [tasks[t] EXCEPT !.pc = "done"])
    /\ UNCHANGED <<sessions_file, nc_next_id, TCP_SENDERS, SERVER_CLIENTS, UDP_SOCKETS,
                   shutdown_channels, send_channels, nc_calls>>
    /\ UNCHANGED <<fwd_vars, scan_vars>>

RECURSIVE DropSenders(_, _)
\* dropping the Sender of every channel of a set
DropSenders(chans, set) ==
    IF set = {} THEN chans
    ELSE LET ch == CHOOSE x \in set : TRUE
         IN DropSenders([chans EXCEPT ![ch].tx_alive = FALSE], set \ {ch})

\* the send channels of the clients registered for a session
ClientChannels(id) ==
    IF id \in DOMAIN SERVER_CLIENTS
    THEN {SERVER_CLIENTS[id][cl] : cl \in DOMAIN SERVER_CLIENTS[id]}
    ELSE {}

\* SERVER_CLIENTS.insert(session_id, HashMap::new()): a map stored before is dropped
tcp_server_init_clients(t) ==
    /\ tasks[t].kind = "tcp_server" /\ tasks[t].pc = "init_clients"
    /\ send_channels' = DropSenders(send_channels, ClientChannels(tasks[t].session))
    /\ SERVER_CLIENTS' = Insert(SERVER_CLIENTS, tasks[t].session, EmptyMap)
    /\ tasks' = SetTask(t, [tasks[t] EXCEPT !.pc = "install_shutdown"])
    /\ UNCHANGED <<sessions, sessions_file, nc_next_id, TCP_SENDERS, UDP_SOCKETS,
                   shutdown_channels, nc_calls>>
    /\ UNCHANGED <<fwd_vars, scan_vars>>

\* select!: shutdown_rx.recv() completes, the accept loop breaks
tcp_server_shutdown(t) ==
    /\ tasks[t].kind = "tcp_server" /\ tasks[t].pc = "loop"
    /\ ShutdownReady(tasks[t].sd)
    /\ shutdown_channels' = [shutdown_channels EXCEPT ![tasks[t].sd].queued = FALSE]
    /\ tasks' = SetTask(t, [tasks[t] EXCEPT !.pc = "cleanup_status"])
    /\ UNCHANGED <<sessions, sessions_file, nc_next_id, TCP_SENDERS, SERVER_CLIENTS,
                   UDP_SOCKETS, send_channels, nc_calls>>
    /\ UNCHANGED <<fwd_vars, scan_vars>>

\* accept returns a stream: generate_id() names the client, handle_client_connection adds
\* it to the client table of the session
tcp_server_accept(t, maxClients) ==
    /\ tasks[t].kind = "tcp_server" /\ tasks[t].pc = "loop"
    /\ Cardinality({h \in 1..Len(tasks) : tasks[h].kind = "server_read"}) < maxClients
    /\ sessions' = [sessions EXCEPT
                       ![tasks[t].session].clients = @ \cup {nc_next_id},
                       ![tasks[t].session].client_count =
                           Cardinality(sessions[tasks[t].session].clients \cup {nc_next_id})]
    /\ nc_next_id' = nc_next_id + 1
    /\ tasks' = SetTask(t, [tasks[t] EXCEPT !.pc = "register", !.client = nc_next_id])
    /\ UNCHANGED <<sessions_file, TCP_SENDERS, SERVER_CLIENTS, UDP_SOCKETS,
                   shutdown_channels, send_channels, nc_calls>>
    /\ UNCHANGED <<fwd_vars, scan_vars>>

\* handle_client_connection goes on: the client's Sender is stored if the session has a
\* map in SERVER_CLIENTS (else it is dropped), the send task and the read task are spawned
tcp_server_register(t) ==
    /\ tasks[t].kind = "tcp_server" /\ tasks[t].pc = "register"
    /\ LET id == tasks[t].session
           cl == tasks[t].client
           ch == Len(send_channels) + 1
       IN /\ IF id \in DOMAIN SERVER_CLIENTS
             THEN /\ SERVER_CLIENTS' = [SERVER_CLIENTS EXCEPT ![id] = Insert(@, cl, ch)]
                  /\ send_channels' = Append(send_channels, NewSendChannel)
             ELSE /\ SERVER_CLIENTS' = SERVER_CLIENTS
                  /\ send_channels' = Append(send_channels,
                                             [NewSendChannel EXCEPT !.tx_alive = FALSE])
          /\ tasks' = SetTask(t, [tasks[t] EXCEPT !.pc = "loop", !.client = 0])
                      \o <<[NewTask("server_send", id) EXCEPT !.pc = "recv", !.ch = ch,
                                                             !.client = cl],
                           [NewTask("server_read", id) EXCEPT !.pc = "read", !.client = cl]>>
    /\ UNCHANGED <<sessions, sessions_file, nc_next_id, TCP_SENDERS, UDP_SOCKETS,
                   shutdown_channels, nc_calls>>
    /\ UNCHANGED <<fwd_vars, scan_vars>>

\* after the loop: status Disconnected, the client table is cleared
tcp_server_cleanup_status(t) ==
    /\ tasks[t].kind = "tcp_server" /\ tasks[t].pc = "cleanup_status"
    /\ sessions' = [sessions EXCEPT ![tasks[t].session].status = "disconnected",
                                    ![tasks[t].session].clients = {}]
    /\ tasks' = SetTask(t, [tasks[t] EXCEPT !.pc = "cleanup_clients"])
    /\ UNCHANGED <<sessions_file, nc_next_id, TCP_SENDERS, SERVER_CLIENTS, UDP_SOCKETS,
                   shutdown_channels, send_channels, nc_calls>>
    /\ UNCHANGED <<fwd_vars, scan_vars>>

\* SERVER_CLIENTS.remove(session_id); start_tcp_server returns, dropping the listener and
\* shutdown_rx
tcp_server_cleanup_clients(t) ==
    /\ tasks[t].kind = "tcp_server" /\ tasks[t].pc = "cleanup_clients"
    /\ send_channels' = DropSenders(send_channels, ClientChannels(tasks[t].session))
    /\ SERVER_CLIENTS' = Remove(SERVER_CLIENTS, tasks[t].session)
    /\ shutdown_channels' = [shutdown_channels EXCEPT ![tasks[t].sd].rx_alive = FALSE]
    /\ tasks' = SetTask(t, [tasks[t] EXCEPT !.pc = "done"])
    /\ UNCHANGED <<sessions, sessions_file, nc_next_id, TCP_SENDERS, UDP_SOCKETS, nc_calls>>
    /\ UNCHANGED <<fwd_vars, scan_vars>>

\* the read task of a client reads a chunk and spawns a task that will log it
server_read_data(t, data, maxMsgs) ==
    /\ tasks[t].kind = "server_read" /\ tasks[t].pc = "read"
    /\ sessions[tasks[t].session].message_count
         + Cardinality({h \in 1..Len(tasks) : tasks[h].kind = "server_handle"
                                              /\ tasks[h].pc = "handle"}) < maxMsgs
    /\ tasks' = Append(tasks, [NewTask("server_handle", tasks[t].session) EXCEPT
                                  !.pc = "handle", !.client = tasks[t].client,
                                  !.data = data])
    /\ UNCHANGED <<sessions, sessions_file, nc_next_id, TCP_SENDERS, SERVER_CLIENTS,
                   UDP_SOCKETS, shutdown_channels, send_channels, nc_calls>>
    /\ UNCHANGED <<fwd_vars, scan_vars>>

\* the spawned handle_received_data(.., data, Some(client_id), Some(client_addr))
server_handle_received(t) ==
    /\ tasks[t].kind = "server_handle" /\ tasks[t].pc = "handle"
    /\ sessions' = handle_received_data(sessions, tasks[t].session, tasks[t].data,
                                        Some(tasks[t].client), Some(PeerAddr))
    /\ tasks' = SetTask(t, [tasks[t] EXCEPT !.pc = "done", !.data = <<>>])
    /\ UNCHANGED <<sessions_file, nc_next_id, TCP_SENDERS, SERVER_CLIENTS, UDP_SOCKETS,
                   shutdown_channels, send_channels, nc_calls>>
    /\ UNCHANGED <<fwd_vars, scan_vars>>

\* read returns Ok(0): the client has disconnected, the read loop breaks
server_read_eof(t) ==
    /\ tasks[t].kind = "server_read" /\ tasks[t].pc = "read"
    /\ tasks' = SetTask(t, [tasks[t] EXCEPT !.pc = "disconnect_state"])
    /\ UNCHANGED <<sessions, sessions_file, nc_next_id, TCP_SENDERS, SERVER_CLIENTS,
                   UDP_SOCKETS, shutdown_channels, send_channels, nc_calls>>
    /\ UNCHANGED <<fwd_vars, scan_vars>>

\* read returns Err: the read loop breaks
server_read_err(t) ==
    /\ tasks[t].kind = "server_read" /\ tasks[t].pc = "read"
    /\ tasks' = SetTask(t, [tasks[t] EXCEPT !.pc = "disconnect_state"])
    /\ UNCHANGED <<sessions, sessions_file, nc_next_id, TCP_SENDERS, SERVER_CLIENTS,
                   UDP_SOCKETS, shutdown_channels, send_channels, nc_calls>>
    /\ UNCHANGED <<fwd_vars, scan_vars>>

\* a handle_client_disconnect that empties the client table
handle_client_disconnect_state_Clear(t) ==
    /\ tasks[t].kind = "server_read" /\ tasks[t].pc = "disconnect_state"
    /\ sessions' = [sessions EXCEPT ![tasks[t].session].clients = {},
                                    ![tasks[t].session].client_count = 0]
    /\ tasks' = SetTask(t, [tasks[t] EXCEPT !.pc = "disconnect_sender"])
    /\ UNCHANGED <<sessions_file, nc_next_id, TCP_SENDERS, SERVER_CLIENTS, UDP_SOCKETS,
                   shutdown_channels, send_channels, nc_calls>>
    /\ UNCHANGED <<fwd_vars, scan_vars>>

\* handle_client_disconnect, first lock section: the client leaves the client table
handle_client_disconnect_state(t) ==
    /\ tasks[t].kind = "server_read" /\ tasks[t].pc = "disconnect_state"
    /\ sessions' = [sessions EXCEPT
                       ![tasks[t].session].clients = @ \ {tasks[t].client},
                       ![tasks[t].session].client_count =
                           Cardinality(sessions[tasks[t].session].clients \ {tasks[t].client})]
    /\ tasks' = SetTask(t, [tasks[t] EXCEPT !.pc = "disconnect_sender"])
    /\ UNCHANGED <<sessions_file, nc_next_id, TCP_SENDERS, SERVER_CLIENTS, UDP_SOCKETS,
                   shutdown_channels, send_channels, nc_calls>>
    /\ UNCHANGED <<fwd_vars, scan_vars>>

\* handle_client_disconnect, second lock section: the client's Sender leaves SERVER_CLIENTS
handle_client_disconnect_sender(t) ==
    /\ tasks[t].kind = "server_read" /\ tasks[t].pc = "disconnect_sender"
    /\ LET id == tasks[t].session
           cl == tasks[t].client
           has == id \in DOMAIN SERVER_CLIENTS /\ cl \in DOMAIN SERVER_CLIENTS[id]
       IN /\ SERVER_CLIENTS' = IF has THEN [SERVER_CLIENTS EXCEPT ![id] = Remove(@, cl)]
                               ELSE SERVER_CLIENTS
          /\ send_channels' = IF has THEN DropSender(send_channels, Some(SERVER_CLIENTS[id][cl]))
                              ELSE send_channels
    /\ tasks' = SetTask(t, [tasks[t] EXCEPT !.pc = "done"])
    /\ UNCHANGED <<sessions, sessions_file, nc_next_id, TCP_SENDERS, UDP_SOCKETS,
                   shutdown_channels, nc_calls>>
    /\ UNCHANGED <<fwd_vars, scan_vars>>

\* the send task of a client writes and flushes a payload, counts it for the session
server_send_write_ok(t) ==
    /\ tasks[t].kind = "server_send" /\ tasks[t].pc = "recv"
    /\ send_channels[tasks[t].ch].queue # <<>>
    /\ LET item == Head(send_channels[tasks[t].ch].queue)
       IN /\ send_channels' = [send_channels EXCEPT ![tasks[t].ch].queue = Tail(@),
                                                    ![tasks[t].ch].written = Append(@, item)]
          /\ sessions' = [sessions EXCEPT ![tasks[t].session].bytes_sent = @ + Len(item.data)]
    /\ UNCHANGED <<sessions_file, nc_next_id, TCP_SENDERS, SERVER_CLIENTS, UDP_SOCKETS,
                   shutdown_channels, tasks, nc_calls>>
    /\ UNCHANGED <<fwd_vars, scan_vars>>

\* write_all or flush fails: the send task breaks and drops send_rx
server_send_write_err(t) ==
    /\ tasks[t].kind = "server_send" /\ tasks[t].pc = "recv"
    /\ send_channels[tasks[t].ch].queue # <<>>
    /\ send_channels' = [send_channels EXCEPT ![tasks[t].ch].rx_alive = FALSE,
                                              ![tasks[t].ch].queue = <<>>]
    /\ tasks' = SetTask(t, [tasks[t] EXCEPT !.pc = "done"])
    /\ UNCHANGED <<sessions, sessions_file, nc_next_id, TCP_SENDERS, SERVER_CLIENTS,
                   UDP_SOCKETS, shutdown_channels, nc_calls>>
    /\ UNCHANGED <<fwd_vars, scan_vars>>

\* send_rx.recv() returns None: the send task ends
server_send_closed(t) ==
    /\ tasks[t].kind = "server_send" /\ tasks[t].pc = "recv"
    /\ send_channels[tasks[t].ch].queue = <<>>
    /\ ~send_channels[tasks[t].ch].tx_alive
    /\ send_channels' = [send_channels EXCEPT ![tasks[t].ch].rx_alive = FALSE]
    /\ tasks' = SetTask(t, [tasks[t] EXCEPT !.pc = "done"])
    /\ UNCHANGED <<sessions, sessions_file, nc_next_id, TCP_SENDERS, SERVER_CLIENTS,
                   UDP_SOCKETS, shutdown_channels, nc_calls>>
    /\ UNCHANGED <<fwd_vars, scan_vars>>

----------------------------------------------------------------------------
(* Netcat engine: UDP (udp.rs) *)

\* the sockets of this process bound to a UDP port: a server-mode socket lives from its bind
\* until the send task and the receive task that share it have ended
UdpPortBound(port) ==
    \E t \in 1..Len(tasks) :
        /\ tasks[t].kind \in {"udp", "udp_send", "udp_recv"}
        /\ tasks[t].pc \notin {"begin", "done"}
        /\ sessions[tasks[t].session].mode = "server"
        /\ sessions[tasks[t].session].port = port

\* UdpSocket::bind fails in server mode (always when this process holds the port already):
\* start_udp_session returns the error through `?`
udp_bind_err(t) ==
    /\ tasks[t].kind = "udp" /\ tasks[t].pc = "begin"
    /\ sessions[tasks[t].session].mode = "server"
    /\ tasks' = SetTask(t, [tasks[t] EXCEPT !.pc = "done"])
    /\ UNCHANGED <<sessions, sessions_file, nc_next_id, TCP_SENDERS, SERVER_CLIENTS,
                   UDP_SOCKETS, shutdown_channels, send_channels, nc_calls>>
    /\ UNCHANGED <<fwd_vars, scan_vars>>

\* client mode, the bind to 0.0.0.0:0 succeeds but the target does not parse as a
\* SocketAddr: start_udp_session returns the error through `?`
udp_parse_err(t) ==
    /\ tasks[t].kind = "udp" /\ tasks[t].pc = "begin"
    /\ sessions[tasks[t].session].mode = "client"
    /\ ~ParsesAsSocketAddr(sessions[tasks[t].session].host)
    /\ tasks' = SetTask(t, [tasks[t] EXCEPT !.pc = "done"])
    /\ UNCHANGED <<sessions, sessions_file, nc_next_id, TCP_SENDERS, SERVER_CLIENTS,
                   UDP_SOCKETS, shutdown_channels, send_channels, nc_calls>>
    /\ UNCHANGED <<fwd_vars, scan_vars>>

\* the socket is bound (and the target parsed): status Connected for a client, Listening
\* for a server
udp_bind_ok(t) ==
    /\ tasks[t].kind = "udp" /\ tasks[t].pc = "begin"
    /\ LET s == sessions[tasks[t].session]
       IN /\ IF s.mode = "client" THEN ParsesAsSocketAddr(s.host) ELSE ~UdpPortBound(s.port)
          /\ sessions' = [sessions EXCEPT
                             ![tasks[t].session].status =
                                 IF s.mode = "client" THEN "connected" ELSE "listening"]
          /\ tasks' = SetTask(t, [tasks[t] EXCEPT
                                     !.pc = "install_shutdown",
                                     !.target = IF s.mode = "client"
                                                THEN Some(SocketAddr(s.host, s.port))
                                                ELSE None])
    /\ UNCHANGED <<sessions_file, nc_next_id, TCP_SENDERS, SERVER_CLIENTS, UDP_SOCKETS,
                   shutdown_channels, send_channels, nc_calls>>
    /\ UNCHANGED <<fwd_vars, scan_vars>>

\* the send channel of the entry of a session in UDP_SOCKETS, as an Option
UdpSender(id) == IF id \in DOMAIN UDP_SOCKETS THEN Some(UDP_SOCKETS[id].send_tx) ELSE None

\* UDP_SOCKETS.insert(session_id, UdpSocketState { send_tx, target_addr }) with a new
\* channel, then the send task and the receive task are spawned and the start returns Ok
udp_install_socket(t) ==
    /\ tasks[t].kind = "udp" /\ tasks[t].pc = "install_sender"
    /\ LET id == tasks[t].session
           ch == Len(send_channels) + 1
       IN /\ send_channels' = Append(DropSender(send_channels, UdpSender(id)), NewSendChannel)
          /\ UDP_SOCKETS' = Insert(UDP_SOCKETS, id,
                                   [send_tx |-> ch, target_addr |-> tasks[t].target])
          /\ tasks' = SetTask(t, [tasks[t] EXCEPT !.pc = "done"])
                      \o <<[NewTask("udp_send", id) EXCEPT !.pc = "recv", !.ch = ch,
                                                          !.target = tasks[t].target],
                           [NewTask("udp_recv", id) EXCEPT !.pc = "recv", !.sd = tasks[t].sd]>>
    /\ UNCHANGED <<sessions, sessions_file, nc_next_id, TCP_SENDERS, SERVER_CLIENTS,
                   shutdown_channels, nc_calls>>
    /\ UNCHANGED <<fwd_vars, scan_vars>>

\* the destination the send task uses for a queued datagram: its own, else the default
DatagramTarget(t, item) == IF item.addr # None THEN item.addr ELSE tasks[t].target

\* the send task takes a datagram with a destination, send_to succeeds, the bytes count
udp_send_ok(t) ==
    /\ tasks[t].kind = "udp_send" /\ tasks[t].pc = "recv"
    /\ send_channels[tasks[t].ch].queue # <<>>
    /\ LET item == Head(send_channels[tasks[t].ch].queue)
       IN /\ DatagramTarget(t, item) # None
          /\ send_channels' =
                 [send_channels EXCEPT
                     ![tasks[t].ch].queue = Tail(@),
                     ![tasks[t].ch].written =
                         Append(@, [data |-> item.data, addr |-> DatagramTarget(t, item)])]
          /\ sessions' = [sessions EXCEPT ![tasks[t].session].bytes_sent = @ + Len(item.data)]
    /\ UNCHANGED <<sessions_file, nc_next_id, TCP_SENDERS, SERVER_CLIENTS, UDP_SOCKETS,
                   shutdown_channels, tasks, nc_calls>>
    /\ UNCHANGED <<fwd_vars, scan_vars>>

\* the send task takes a datagram without destination and has no default target: continue
udp_send_no_target(t) ==
    /\ tasks[t].kind = "udp_send" /\ tasks[t].pc = "recv"
    /\ send_channels[tasks[t].ch].queue # <<>>
    /\ DatagramTarget(t, Head(send_channels[tasks[t].ch].queue)) = None
    /\ send_channels' = [send_channels EXCEPT ![tasks[t].ch].queue = Tail(@)]
    /\ UNCHANGED <<sessions, sessions_file, nc_next_id, TCP_SENDERS, SERVER_CLIENTS,
                   UDP_SOCKETS, shutdown_channels, tasks, nc_calls>>
    /\ UNCHANGED <<fwd_vars, scan_vars>>

\* send_to fails: the error is printed, the loop continues
udp_send_err(t) ==
    /\ tasks[t].kind = "udp_send" /\ tasks[t].pc = "recv"
    /\ send_channels[tasks[t].ch].queue # <<>>
    /\ DatagramTarget(t, Head(send_channels[tasks[t].ch].queue)) # None
    /\ send_channels' = [send_channels EXCEPT ![tasks[t].ch].queue = Tail(@)]
    /\ UNCHANGED <<sessions, sessions_file, nc_next_id, TCP_SENDERS, SERVER_CLIENTS,
                   UDP_SOCKETS, shutdown_channels, tasks, nc_calls>>
    /\ UNCHANGED <<fwd_vars, scan_vars>>

\* send_rx.recv() returns None: the send task ends
udp_send_closed(t) ==
    /\ tasks[t].kind = "udp_send" /\ tasks[t].pc = "recv"
    /\ send_channels[tasks[t].ch].queue = <<>>
    /\ ~send_channels[tasks[t].ch].tx_alive
    /\ send_channels' = [send_channels EXCEPT ![tasks[t].ch].rx_alive = FALSE]
    /\ tasks' = SetTask(t, [tasks[t] EXCEPT !.pc = "done"])
    /\ UNCHANGED <<sessions, sessions_file, nc_next_id, TCP_SENDERS, SERVER_CLIENTS,
                   UDP_SOCKETS, shutdown_channels, nc_calls>>
    /\ UNCHANGED <<fwd_vars, scan_vars>>

\* format!("udp-{}", from_addr.replace([':', '.'], "-"))
ClientIdText(addr) ==
    <<"u", "d", "p", "-">> \o replace_chars(addr_to_string(addr), {":", "."}, "-")

ClientIdTexts == {ClientIdText(addr) : addr \in PeerAddrs}

\* a number for each client id text: equal numbers for equal texts only
ClientIdNumber ==
    CHOOSE f \in [ClientIdTexts -> 1..Cardinality(ClientIdTexts)] :
        \A x, y \in ClientIdTexts : x # y => f[x] # f[y]

\* the client id a server-mode session gives to a peer address, as the number of its
\* text; ids of TCP clients come from generate_id and stay below UdpIdBase
UdpClientId(addr) == UdpIdBase + ClientIdNumber[ClientIdText(addr)]

\* handle_received_data of udp.rs: count the datagram, track its sender as a client in
\* server mode, log it
udp_handle_received_data(ss, id, data, addr) ==
    LET server == ss[id].mode = "server"
        cid == UdpClientId(addr)
        cls == IF server THEN ss[id].clients \cup {cid} ELSE ss[id].clients
    IN [ss EXCEPT ![id].bytes_received = @ + Len(data),
                  ![id].message_count = @ + 1,
                  ![id].clients = cls,
                  ![id].client_count = IF server /\ cid \notin ss[id].clients
                                        THEN Cardinality(cls) ELSE @,
                  ![id].messages =
                      PushMessage(@, Received(data, IF server THEN Some(cid) ELSE None,
                                              Some(addr)))]

\* select!: shutdown_rx.recv() completes, the receive loop breaks
udp_recv_shutdown(t) ==
    /\ tasks[t].kind = "udp_recv" /\ tasks[t].pc = "recv"
    /\ ShutdownReady(tasks[t].sd)
    /\ shutdown_channels' = [shutdown_channels EXCEPT ![tasks[t].sd].queued = FALSE]
    /\ tasks' = SetTask(t, [tasks[t] EXCEPT !.pc = "cleanup_socket"])
    /\ UNCHANGED <<sessions, sessions_file, nc_next_id, TCP_SENDERS, SERVER_CLIENTS,
                   UDP_SOCKETS, send_channels, nc_calls>>
    /\ UNCHANGED <<fwd_vars, scan_vars>>

\* recv_from returns a datagram and the address of its sender, which is of the family
\* of the socket: that of the host in server mode, IPv4 in client mode (bound to 0.0.0.0:0)
udp_recv_from(t, data, addr, maxMsgs) ==
    /\ tasks[t].kind = "udp_recv" /\ tasks[t].pc = "recv"
    /\ sessions[tasks[t].session].message_count < maxMsgs
    /\ IsIpv6(addr.host) = (/\ sessions[tasks[t].session].mode = "server"
                            /\ IsIpv6(sessions[tasks[t].session].host))
    /\ sessions' = udp_handle_received_data(sessions, tasks[t].session, data, addr)
    /\ UNCHANGED <<sessions_file, nc_next_id, TCP_SENDERS, SERVER_CLIENTS, UDP_SOCKETS,
                   shutdown_channels, send_channels, tasks, nc_calls>>
    /\ UNCHANGED <<fwd_vars, scan_vars>>

\* recv_from returns a datagram of the one peer
udp_recv_data(t, data, maxMsgs) ==
    /\ tasks[t].kind = "udp_recv" /\ tasks[t].pc = "recv"
    /\ sessions[tasks[t].session].message_count < maxMsgs
    /\ sessions' = udp_handle_received_data(sessions, tasks[t].session, data, PeerAddr)
    /\ UNCHANGED <<sessions_file, nc_next_id, TCP_SENDERS, SERVER_CLIENTS, UDP_SOCKETS,
                   shutdown_channels, send_channels, tasks, nc_calls>>
    /\ UNCHANGED <<fwd_vars, scan_vars>>

\* after the loop: UDP_SOCKETS.remove(session_id)
udp_recv_cleanup_socket(t) ==
    /\ tasks[t].kind = "udp_recv" /\ tasks[t].pc = "cleanup_socket"
    /\ UDP_SOCKETS' = Remove(UDP_SOCKETS, tasks[t].session)
    /\ send_channels' = DropSender(send_channels, UdpSender(tasks[t].session))
    /\ tasks' = SetTask(t, [tasks[t] EXCEPT !.pc = "cleanup_status"])
    /\ UNCHANGED <<sessions, sessions_file, nc_next_id, TCP_SENDERS, SERVER_CLIENTS,
                   shutdown_channels, nc_calls>>
    /\ UNCHANGED <<fwd_vars, scan_vars>>

\* status Disconnected; the task ends and drops shutdown_rx
udp_recv_cleanup_status(t) ==
    /\ tasks[t].kind = "udp_recv" /\ tasks[t].pc = "cleanup_status"
    /\ sessions' = [sessions EXCEPT ![tasks[t].session].status = "disconnected"]
    /\ shutdown_channels' = [shutdown_channels EXCEPT ![tasks[t].sd].rx_alive = FALSE]
    /\ tasks' = SetTask(t, [tasks[t] EXCEPT !.pc = "done"])
    /\ UNCHANGED <<sessions_file, nc_next_id, TCP_SENDERS, SERVER_CLIENTS, UDP_SOCKETS,
                   send_channels, nc_calls>>
    /\ UNCHANGED <<fwd_vars, scan_vars>>

----------------------------------------------------------------------------
(* Netcat engine: netcat_send_message (mod.rs) *)

\* a target_client string: the client id it spells (0 when it spells none) and the host and
\* port it spells as "host:port" ("" when it spells none)
ClientTarget(id) == [id |-> id, host |-> "", port |-> 0]

AddrTarget(host, port) == [id |-> 0, host |-> host, port |-> port]

\* the NetcatMessage of a sent payload: it keeps the input text and the target given
Sent(input, bytes) ==
    [direction |-> "sent", data |-> input.data, size |-> Len(bytes),
     client_id |-> input.target_client, client_addr |-> None]

\* tx.send(item).await on a send channel: the item is queued while the Receiver is alive
Enqueue(chans, ch, item) == [chans EXCEPT ![ch].queue = Append(@, item)]

\* tx.send(..).await can complete: the Receiver is gone (an error) or the queue has room
CanSend(ch) == ~send_channels[ch].rx_alive \/ Len(send_channels[ch].queue) < SendCap

\* netcat_send_message: look the session up, parse the data
netcat_send_message(c, id, input, maxMsgs) ==
    /\ NcCanInvoke(c)
    /\ id \in DOMAIN sessions => sessions[id].message_count < maxMsgs
    /\ LET parsed == parse_input_data(input.data, input.format)
           call == [NcNewCall("send", id, "send_route") EXCEPT !.input = input]
       IN NcSetCall(c, IF id \notin DOMAIN sessions THEN NcReturned(call, "err_notfound")
                       ELSE IF ~parsed.ok THEN NcReturned(call, "err_parse")
                       ELSE [call EXCEPT !.data = parsed.bytes])
    /\ UNCHANGED <<sessions, sessions_file, nc_next_id, TCP_SENDERS, SERVER_CLIENTS,
                   UDP_SOCKETS, shutdown_channels, send_channels, tasks>>
    /\ UNCHANGED <<fwd_vars, scan_vars>>

\* the session of a call that is routing its payload has this protocol and mode
Routing(c, protocol, modes) ==
    /\ nc_calls[c].pc = "send_route"
    /\ sessions[nc_calls[c].session_id].protocol = protocol
    /\ sessions[nc_calls[c].session_id].mode \in modes

NcFail(c, res) == NcSetCall(c, NcReturned(nc_calls[c], res))

NcRecord(c) == NcSetCall(c, [nc_calls[c] EXCEPT !.pc = "send_record"])

\* (Tcp, Client): send_tcp_client_data
send_tcp_client_data(c) ==
    /\ Routing(c, "tcp", {"client"})
    /\ LET id == nc_calls[c].session_id
       IN IF id \notin DOMAIN TCP_SENDERS
          THEN /\ NcFail(c, "err_not_connected")
               /\ send_channels' = send_channels
          ELSE /\ CanSend(TCP_SENDERS[id])
               /\ IF send_channels[TCP_SENDERS[id]].rx_alive
                  THEN /\ send_channels' = Enqueue(send_channels, TCP_SENDERS[id],
                                                   [data |-> nc_calls[c].data, addr |-> None])
                       /\ NcRecord(c)
                  ELSE /\ send_channels' = send_channels
                       /\ NcFail(c, "err_send")
    /\ UNCHANGED <<sessions, sessions_file, nc_next_id, TCP_SENDERS, SERVER_CLIENTS,
                   UDP_SOCKETS, shutdown_channels, tasks>>
    /\ UNCHANGED <<fwd_vars, scan_vars>>

RECURSIVE EnqueueAll(_, _, _)
\* the payload sent on each channel of a set; a failed send is only logged
EnqueueAll(chans, set, item) ==
    IF set = {} THEN chans
    ELSE LET ch == CHOOSE x \in set : TRUE
         IN EnqueueAll(IF chans[ch].rx_alive THEN Enqueue(chans, ch, item) ELSE chans,
                       set \ {ch}, item)

\* (Tcp, Server) with broadcast = Some(true): broadcast_to_clients
broadcast_to_clients(c) ==
    /\ Routing(c, "tcp", {"server"})
    /\ nc_calls[c].input.broadcast = Some(TRUE)
    /\ LET id == nc_calls[c].session_id
       IN IF id \notin DOMAIN SERVER_CLIENTS
          THEN /\ NcFail(c, "err_no_session")
               /\ send_channels' = send_channels
          ELSE IF DOMAIN SERVER_CLIENTS[id] = {}
          THEN /\ NcFail(c, "err_no_clients")
               /\ send_channels' = send_channels
          ELSE /\ \A ch \in ClientChannels(id) : CanSend(ch)
               /\ send_channels' = EnqueueAll(send_channels, ClientChannels(id),
                                              [data |-> nc_calls[c].data, addr |-> None])
               /\ NcRecord(c)
    /\ UNCHANGED <<sessions, sessions_file, nc_next_id, TCP_SENDERS, SERVER_CLIENTS,
                   UDP_SOCKETS, shutdown_channels, tasks>>
    /\ UNCHANGED <<fwd_vars, scan_vars>>

\* (Tcp, Server) without broadcast, with a target client: send_to_client
send_to_client(c) ==
    /\ Routing(c, "tcp", {"server"})
    /\ nc_calls[c].input.broadcast # Some(TRUE)
    /\ nc_calls[c].input.target_client # None
    /\ LET id == nc_calls[c].session_id
           cl == nc_calls[c].input.target_client[1].id
       IN IF id \notin DOMAIN SERVER_CLIENTS
          THEN /\ NcFail(c, "err_no_session")
               /\ send_channels' = send_channels
          ELSE IF cl \notin DOMAIN SERVER_CLIENTS[id]
          THEN /\ NcFail(c, "err_no_client")
               /\ send_channels' = send_channels
          ELSE /\ CanSend(SERVER_CLIENTS[id][cl])
               /\ IF send_channels[SERVER_CLIENTS[id][cl]].rx_alive
                  THEN /\ send_channels' = Enqueue(send_channels, SERVER_CLIENTS[id][cl],
                                                   [data |-> nc_calls[c].data, addr |-> None])
                       /\ NcRecord(c)
                  ELSE /\ send_channels' = send_channels
                       /\ NcFail(c, "err_send")
    /\ UNCHANGED <<sessions, sessions_file, nc_next_id, TCP_SENDERS, SERVER_CLIENTS,
                   UDP_SOCKETS, shutdown_channels, tasks>>
    /\ UNCHANGED <<fwd_vars, scan_vars>>

send_no_target_Record(c) ==
    /\ Routing(c, "tcp", {"server"})
    /\ nc_calls[c].input.broadcast # Some(TRUE)
    /\ nc_calls[c].input.target_client = None
    /\ NcRecord(c)
    /\ UNCHANGED <<sessions, sessions_file, nc_next_id, TCP_SENDERS, SERVER_CLIENTS,
                   UDP_SOCKETS, shutdown_channels, send_channels, tasks>>
    /\ UNCHANGED <<fwd_vars, scan_vars>>

\* (Tcp, Server) with neither broadcast nor target: the command returns the error
send_no_target(c) ==
    /\ Routing(c, "tcp", {"server"})
    /\ nc_calls[c].input.broadcast # Some(TRUE)
    /\ nc_calls[c].input.target_client = None
    /\ NcFail(c, "err_no_target")
    /\ UNCHANGED <<sessions, sessions_file, nc_next_id, TCP_SENDERS, SERVER_CLIENTS,
                   UDP_SOCKETS, shutdown_channels, send_channels, tasks>>
    /\ UNCHANGED <<fwd_vars, scan_vars>>

\* (Udp, _): send_udp_data with the target given, else the target of the socket entry
send_udp_data(c) ==
    /\ Routing(c, "udp", {"client", "server"})
    /\ LET id == nc_calls[c].session_id
           target == nc_calls[c].input.target_client
       IN IF id \notin DOMAIN UDP_SOCKETS
          THEN /\ NcFail(c, "err_no_session")
               /\ send_channels' = send_channels
          ELSE IF target # None /\ ~ParsesAsSocketAddr(target[1].host)
          THEN /\ NcFail(c, "err_addr")
               /\ send_channels' = send_channels
          ELSE LET addr == IF target # None
                           THEN Some(SocketAddr(target[1].host, target[1].port))
                           ELSE UDP_SOCKETS[id].target_addr
                   ch == UDP_SOCKETS[id].send_tx
               IN /\ CanSend(ch)
                  /\ IF send_channels[ch].rx_alive
                     THEN /\ send_channels' = Enqueue(send_channels, ch,
                                                      [data |-> nc_calls[c].data,
                                                       addr |-> addr])
                          /\ NcRecord(c)
                     ELSE /\ send_channels' = send_channels
                          /\ NcFail(c, "err_send")
    /\ UNCHANGED <<sessions, sessions_file, nc_next_id, TCP_SENDERS, SERVER_CLIENTS,
                   UDP_SOCKETS, shutdown_channels, tasks>>
    /\ UNCHANGED <<fwd_vars, scan_vars>>

\* the Sent message is logged and counted, the command returns it
send_record(c) ==
    /\ nc_calls[c].pc = "send_record"
    /\ sessions' = [sessions EXCEPT
                       ![nc_calls[c].session_id].messages =
                           PushMessage(@, Sent(nc_calls[c].input, nc_calls[c].data)),
                       ![nc_calls[c].session_id].message_count = @ + 1]
    /\ NcSetCall(c, NcReturned(nc_calls[c], "ok"))
    /\ UNCHANGED <<sessions_file, nc_next_id, TCP_SENDERS, SERVER_CLIENTS, UDP_SOCKETS,
                   shutdown_channels, send_channels, tasks>>
    /\ UNCHANGED <<fwd_vars, scan_vars>>

----------------------------------------------------------------------------
(* Specifications *)

\* a snapshot left by an earlier run: written while its rule was Running with live counters
OldSnapshot ==
    [id \in {1} |-> [local_port |-> 1, remote_host |-> "h", remote_port |-> 1,
                     status |-> "running", connections |-> 1, bytes_in |-> 1, bytes_out |-> 1]]

----------------------------------------------------------------------------
(* Port scanner: the port tables and the commands that return them *)

\* common_ports(): the vector, in the order of the source
common_ports ==
    <<80, 443, 8080, 8443, 8000, 8888, 3000, 3001, 5000, 5173, 4200,
      3306, 5432, 27017, 6379, 9200, 5984,
      21, 22, 23, 2222,
      25, 110, 143, 465, 587, 993, 995,
      3389, 5900, 5901,
      5672, 15672, 9092, 2181,
      53, 67, 68, 69, 161, 162, 389, 636, 1433, 1521, 11211>>

\* the arms of the match of port_service_name, in the order of the source
PortServiceArms ==
    << <<{20}, "FTP-Data">>, <<{21}, "FTP">>, <<{22}, "SSH">>, <<{23}, "Telnet">>,
       <<{25}, "SMTP">>, <<{53}, "DNS">>, <<{67, 68}, "DHCP">>, <<{69}, "TFTP">>,
       <<{80}, "HTTP">>, <<{110}, "POP3">>, <<{119}, "NNTP">>, <<{123}, "NTP">>,
       <<{143}, "IMAP">>, <<{161, 162}, "SNMP">>, <<{389}, "LDAP">>, <<{443}, "HTTPS">>,
       <<{445}, "SMB">>, <<{465}, "SMTPS">>, <<{514}, "Syslog">>,
       <<{587}, "SMTP-Submission">>, <<{636}, "LDAPS">>, <<{993}, "IMAPS">>,
       <<{995}, "POP3S">>, <<{1433}, "MSSQL">>, <<{1521}, "Oracle">>,
       <<{2181}, "ZooKeeper">>, <<{2222}, "SSH-Alt">>, <<{3000}, "Dev-Server">>,
       <<{3306}, "MySQL">>, <<{3389}, "RDP">>, <<{5000}, "Dev-Server">>,
       <<{5173}, "Vite">>, <<{5432}, "PostgreSQL">>, <<{5672}, "RabbitMQ">>,
       <<{5900, 5901}, "VNC">>, <<{5984}, "CouchDB">>, <<{6379}, "Redis">>,
       <<{8000}, "Dev-Server">>, <<{8080}, "HTTP-Proxy">>, <<{8443}, "HTTPS-Alt">>,
       <<{8888}, "Dev-Server">>, <<{9092}, "Kafka">>, <<{9200}, "Elasticsearch">>,
       <<{11211}, "Memcached">>, <<{15672}, "RabbitMQ-Mgmt">>, <<{27017}, "MongoDB">> >>

\* the arms whose pattern matches the port
MatchingArms(port) == {i \in 1..Len(PortServiceArms) : port \in PortServiceArms[i][1]}

\* port_service_name with a name for the ports that have no arm
port_service_name_Unknown(port) ==
    IF MatchingArms(port) = {} THEN Some("Unknown")
    ELSE Some(PortServiceArms[CHOOSE i \in MatchingArms(port) :
                                  \A j \in MatchingArms(port) : i <= j][2])

\* port_service_name: the first arm that matches, None when the wildcard arm does
port_service_name(port) ==
    IF MatchingArms(port) = {} THEN None
    ELSE Some(PortServiceArms[CHOOSE i \in MatchingArms(port) :
                                  \A j \in MatchingArms(port) : i <= j][2])

\* the values of a u16
U16Max == 65535
Ports == 0..U16Max

\* what a connect within the timeout gives check_port
PortStatuses == {"open", "closed", "filtered"}

NoScanResult ==
    [op |-> "none", pc |-> "idle", port |-> 0, ports |-> <<>>, status |-> "none",
     service |-> None]

\* the scanner commands a run can begin with: get_common_ports, and check_port of a port
ScanCalls ==
    {[NoScanResult EXCEPT !.op = "get_common_ports", !.pc = "invoked"]}
    \cup {[NoScanResult EXCEPT !.op = "check_port", !.pc = "invoked", !.port = port] :
             port \in Ports}

ScanInit == scan_result = NoScanResult

\* get_common_ports: Ok(common_ports())
get_common_ports ==
    /\ scan_result.op = "get_common_ports" /\ scan_result.pc = "invoked"
    /\ scan_result' = [scan_result EXCEPT !.pc = "done", !.ports = common_ports]
    /\ UNCHANGED <<fwd_vars, nc_vars>>

\* check_port on a valid target: the ScanResult with the status of the connect and the
\* service name of the port
check_port(status) ==
    /\ scan_result.op = "check_port" /\ scan_result.pc = "invoked"
    /\ scan_result' = [scan_result EXCEPT !.pc = "done", !.status = status,
                                          !.service = port_service_name(scan_result.port)]
    /\ UNCHANGED <<fwd_vars, nc_vars>>

InitialSnapshots == {EmptyMap, OldSnapshot}

EnginesInit ==
    /\ FORWARD_RULES = EmptyMap
    /\ RULES_LOADED = FALSE
    /\ FORWARD_CONTROLLERS = EmptyMap
    /\ rules_file \in InitialSnapshots
    /\ next_id = Cardinality(DOMAIN rules_file) + 1
    /\ controllers = <<>>
    /\ servers = <<>>
    /\ conns = <<>>
    /\ calls = [c \in Callers |-> IdleCall]
    /\ NcInit

Init == EnginesInit /\ ScanInit

AddSteps(c) ==
    \/ add_forward_rule_check(c)
    \/ add_forward_rule_insert(c)
    \/ add_forward_rule_rollback(c)
    \/ save_rules_to_file_ok(c)
    \/ save_rules_to_file_err(c)

StartSteps(c) ==
    \/ start_forwarding_read(c)
    \/ start_forwarding_ctrl(c)
    \/ start_forwarding_status(c)
    \/ start_forwarding_spawn(c)

StopSteps(c) ==
    \/ stop_forwarding_signal(c)
    \/ stop_forwarding_status(c)
    \/ stop_forwarding_remove(c)
    \/ stop_forwarding_sleep(c)

EditSteps(c) ==
    \/ remove_forward_rule_read(c)
    \/ remove_forward_rule_remove(c)
    \/ remove_forward_rule_rollback(c)
    \/ update_forward_rule_read(c)
    \/ update_forward_rule_write(c)
    \/ update_forward_rule_rollback(c)
    \/ update_forward_rule_return(c)

GetSteps(c) ==
    \/ get_forward_rules_ids(c)
    \/ \E id \in RuleIds : get_update_rule_stats_read(c, id)
    \/ get_update_rule_stats_write(c)
    \/ get_forward_rule_return(c)

ListenSteps(s) ==
    \/ run_forward_server_bind_ok(s)
    \/ run_forward_server_bind_err(s)
    \/ run_forward_server_stopped(s)
    \/ start_forwarding_task_exit(s)

ConnSteps(k) ==
    \/ connection_task_inc(k)
    \/ update_rule_stats_read(k)
    \/ update_rule_stats_write(k)
    \/ handle_connection_connect_ok(k)
    \/ handle_connection_connect_err(k)
    \/ handle_connection_join(k)
    \/ connection_task_dec(k)

CopySteps(k, d) ==
    \/ copy_loop_stopped(k, d)
    \/ copy_loop_read_eof(k, d)
    \/ copy_loop_read_err(k, d)
    \/ copy_loop_shutdown(k, d)

DataSteps(k, d) ==
    \/ \E n \in 1..BufSize : copy_loop_read_data(k, d, n)
    \/ copy_loop_write_ok(k, d)
    \/ \E j \in 0..(BufSize - 1) : copy_loop_write_err(k, d, j)

\* Spec: the life cycle of the rules.  One caller issues add, start and stop one after
\* the other; the server tasks run in between; no client connects.
Next ==
    \/ \E input \in ForwardRuleInput : add_forward_rule_invoke(1, input)
    \/ \E id \in RuleIds : start_forwarding_invoke(1, id, MaxStarts)
    \/ \E id \in RuleIds : stop_forwarding_invoke(1, id)
    \/ AddSteps(1)
    \/ StartSteps(1)
    \/ StopSteps(1)
    \/ \E s \in 1..Len(servers) : ListenSteps(s)

Spec == Init /\ [][Next]_vars

\* The application comes up on the snapshot of an earlier run, which holds rule 1.
InitRestart == Init /\ rules_file = OldSnapshot

\* SpecStop: rule 1 is started and stopped while a client is connected; each side sends
\* at most one byte.
NextStop ==
    \/ start_forwarding_invoke(1, 1, RelayStarts)
    \/ stop_forwarding_invoke(1, 1)
    \/ StartSteps(1)
    \/ StopSteps(1)
    \/ \E s \in 1..Len(servers) : ListenSteps(s)
    \/ \E s \in 1..Len(servers), up \in SeqsUpTo(1), down \in SeqsUpTo(1) :
          run_forward_server_accept(s, up, down, StopConns)
    \/ \E s \in 1..Len(servers) : run_forward_server_acquire(s)
    \/ \E k \in 1..Len(conns) : ConnSteps(k)
    \/ \E k \in 1..Len(conns), d \in Dirs : CopySteps(k, d)
    \/ \E k \in 1..Len(conns), d \in Dirs : DataSteps(k, d)

SpecStop == InitRestart /\ [][NextStop]_vars

\* the steps of the listener task that the runtime and the timers bring about: the bind
\* returns, the accept loop comes back to its top within a second and sees the flag, a
\* free permit is handed out, the task ends
ListenerRuns(s) ==
    /\ s \in 1..Len(servers)
    /\ \/ run_forward_server_bind_ok(s)
       \/ run_forward_server_bind_err(s)
       \/ run_forward_server_stopped(s)
       \/ run_forward_server_acquire(s)
       \/ start_forwarding_task_exit(s)

\* the steps of a handler task that the runtime and the timers bring about: the counter
\* and registry updates, the outbound connect (it returns within its 10 s timeout), the
\* join and the end of the task
HandlerRuns(k) == k \in 1..Len(conns) /\ ConnSteps(k)

\* a copy loop comes back to its top within 100 ms of waiting in read and sees the flag;
\* the shutdown after the loop returns
PollTick(k, d) ==
    /\ k \in 1..Len(conns)
    /\ (copy_loop_stopped(k, d) \/ copy_loop_shutdown(k, d))

\* SpecStopFair: SpecStop where the tasks are scheduled and the timers fire.  What the
\* peers do is not part of it: a client connecting, bytes arriving, a write_all returning
\* (it returns when the peer takes the bytes; no timeout is around it)
SpecStopFair ==
    /\ SpecStop
    /\ \A s \in 1..RelayStarts : WF_vars(ListenerRuns(s))
    /\ \A k \in 1..StopConns : WF_vars(HandlerRuns(k))
    /\ \A k \in 1..StopConns : \A d \in Dirs : WF_vars(PollTick(k, d))

\* SpecRelay: one connection of rule 1 that is not stopped, with every payload of up to
\* MaxLen bytes in each direction.
NextRelay ==
    \/ start_forwarding_invoke(1, 1, RelayStarts)
    \/ StartSteps(1)
    \/ \E s \in 1..Len(servers) : run_forward_server_bind_ok(s)
    \/ \E s \in 1..Len(servers), up \in SeqsUpTo(MaxLen), down \in SeqsUpTo(MaxLen) :
          run_forward_server_accept(s, up, down, RelayConns)
    \/ \E s \in 1..Len(servers) : run_forward_server_acquire(s)
    \/ \E k \in 1..Len(conns) : ConnSteps(k)
    \/ \E k \in 1..Len(conns), d \in Dirs : copy_loop_read_eof(k, d)
    \/ \E k \in 1..Len(conns), d \in Dirs : copy_loop_read_err(k, d)
    \/ \E k \in 1..Len(conns), d \in Dirs : copy_loop_shutdown(k, d)
    \/ \E k \in 1..Len(conns), d \in Dirs : DataSteps(k, d)

SpecRelay == InitRestart /\ [][NextRelay]_vars

\* SpecSem: more clients connect to rule 1 than the semaphore has permits; the rule is
\* not stopped and no payload is sent.
NextSem ==
    \/ start_forwarding_invoke(1, 1, RelayStarts)
    \/ StartSteps(1)
    \/ \E s \in 1..Len(servers) : run_forward_server_bind_ok(s)
    \/ \E s \in 1..Len(servers) : run_forward_server_accept(s, <<>>, <<>>, SemConns)
    \/ \E s \in 1..Len(servers) : run_forward_server_acquire(s)
    \/ \E k \in 1..Len(conns) : ConnSteps(k)
    \/ \E k \in 1..Len(conns), d \in Dirs : copy_loop_read_eof(k, d)
    \/ \E k \in 1..Len(conns), d \in Dirs : copy_loop_read_err(k, d)
    \/ \E k \in 1..Len(conns), d \in Dirs : copy_loop_shutdown(k, d)

SpecSem == InitRestart /\ [][NextSem]_vars

\* the semaphore hands a free permit to the waiting accept loop, and the runtime runs it
SpecSemFair ==
    SpecSem /\ \A s \in 1..RelayStarts :
                  WF_vars(s \in DOMAIN servers /\ run_forward_server_acquire(s))

\* the payloads of a connection of SpecCount: one byte, sent by the client or by the remote
CountStreams == {<<(<<1>>), (<<>>)>>, <<(<<>>), (<<0>>)>>}

\* SpecCount: clients of rule 1 connect, the outbound connect succeeds or fails, one side
\* sends a byte and both sides close; get_forward_rule reads the counters; the rule is
\* not stopped.
NextCount ==
    \/ start_forwarding_invoke(1, 1, RelayStarts)
    \/ get_forward_rule_invoke(1, 1)
    \/ StartSteps(1)
    \/ \E id \in RuleIds : get_update_rule_stats_read(1, id)
    \/ get_update_rule_stats_write(1)
    \/ get_forward_rule_return(1)
    \/ \E s \in 1..Len(servers) : run_forward_server_bind_ok(s)
    \/ \E s \in 1..Len(servers), p \in CountStreams :
          run_forward_server_accept(s, p[1], p[2], StatsConns)
    \/ \E s \in 1..Len(servers) : run_forward_server_acquire(s)
    \/ \E k \in 1..Len(conns) : ConnSteps(k)
    \/ \E k \in 1..Len(conns), d \in Dirs : copy_loop_read_eof(k, d)
    \/ \E k \in 1..Len(conns), d \in Dirs : copy_loop_shutdown(k, d)
    \/ \E k \in 1..Len(conns), d \in Dirs, n \in 1..BufSize : copy_loop_read_data(k, d, n)
    \/ \E k \in 1..Len(conns), d \in Dirs : copy_loop_write_ok(k, d)

SpecCount == InitRestart /\ [][NextCount]_vars

\* SpecEdit: the registry is edited (add, update, remove) while rules are started and
\* stopped; no client connects.
NextEdit ==
    \/ \E input \in ForwardRuleInput : add_forward_rule_invoke(1, input)
    \/ \E id \in RuleIds : start_forwarding_invoke(1, id, RelayStarts)
    \/ \E id \in RuleIds : stop_forwarding_invoke(1, id)
    \/ \E id \in RuleIds : remove_forward_rule_invoke(1, id)
    \/ \E id \in RuleIds, input \in ForwardRuleInput : update_forward_rule_invoke(1, id, input)
    \/ AddSteps(1)
    \/ StartSteps(1)
    \/ StopSteps(1)
    \/ EditSteps(1)
    \/ \E s \in 1..Len(servers) : ListenSteps(s)

SpecEdit == Init /\ [][NextEdit]_vars

\* the payload a peer sends: a byte that is not UTF-8
RecvData == {<<255>>}

\* the send inputs tried on every session: a text and a hex payload with one digit too
\* few, to no target, to the first client id, to the peer's address and to a host name, with
\* and without broadcast
SendTargets ==
    {None, Some(ClientTarget(MaxSessions + 1)), Some(AddrTarget("127.0.0.1", 9)),
     Some(AddrTarget("localhost", 9))}

SendMessageInput ==
    {[data |-> <<"A">>, format |-> "text", target_client |-> tg, broadcast |-> b] :
        tg \in SendTargets, b \in {None, Some(TRUE)}}
    \cup {[data |-> <<"4">>, format |-> "hex", target_client |-> None, broadcast |-> None]}

\* on a UDP session: no destination, the peer's address, a host name
UdpSends == {input \in SendMessageInput : input.broadcast = None
                                           /\ input.target_client # Some(ClientTarget(MaxSessions + 1))}

SessionIds == 1..MaxSessions

CreateSteps(c) ==
    \/ save_sessions_ok(c)
    \/ save_sessions_err(c)

NcStopSteps(c) ==
    \/ stop_session_take(c)
    \/ stop_session_send(c)
    \/ stop_session_status(c)
    \/ stop_session_senders(c)

\* the steps of the tasks of a TCP client session
TcpClientTasks ==
    \/ \E t \in 1..Len(tasks) : tcp_client_connecting(t)
    \/ \E t \in 1..Len(tasks), msg \in ConnectErrors : tcp_client_connect_err(t, msg)
    \/ \E t \in 1..Len(tasks) : tcp_client_connect_ok(t)
    \/ \E t \in 1..Len(tasks) : tcp_client_install_sender(t)
    \/ \E t \in 1..Len(tasks) : client_read_shutdown(t)
    \/ \E t \in 1..Len(tasks) : client_read_eof(t)
    \/ \E t \in 1..Len(tasks) : client_read_err(t)
    \/ \E t \in 1..Len(tasks) : client_read_cleanup(t)
    \/ \E t \in 1..Len(tasks) : client_send_write_ok(t)
    \/ \E t \in 1..Len(tasks) : client_send_write_err(t)
    \/ \E t \in 1..Len(tasks) : client_send_closed(t)
    \/ \E t \in 1..Len(tasks) : install_shutdown(t)
    \/ \E t \in 1..Len(tasks), data \in RecvData : client_read_data(t, data, MaxMsgs)

\* the steps of the tasks of a TCP server session, but for the accept
TcpServerTasks ==
    \/ \E t \in 1..Len(tasks) : tcp_server_bind_ok(t)
    \/ \E t \in 1..Len(tasks) : tcp_server_bind_err(t)
    \/ \E t \in 1..Len(tasks) : bind_error_set(t)
    \/ \E t \in 1..Len(tasks) : tcp_server_init_clients(t)
    \/ \E t \in 1..Len(tasks) : tcp_server_shutdown(t)
    \/ \E t \in 1..Len(tasks) : tcp_server_register(t)
    \/ \E t \in 1..Len(tasks) : tcp_server_cleanup_status(t)
    \/ \E t \in 1..Len(tasks) : tcp_server_cleanup_clients(t)
    \/ \E t \in 1..Len(tasks) : server_handle_received(t)
    \/ \E t \in 1..Len(tasks) : server_read_eof(t)
    \/ \E t \in 1..Len(tasks) : server_read_err(t)
    \/ \E t \in 1..Len(tasks) : handle_client_disconnect_state(t)
    \/ \E t \in 1..Len(tasks) : handle_client_disconnect_sender(t)
    \/ \E t \in 1..Len(tasks) : server_send_write_ok(t)
    \/ \E t \in 1..Len(tasks) : server_send_write_err(t)
    \/ \E t \in 1..Len(tasks) : server_send_closed(t)
    \/ \E t \in 1..Len(tasks) : install_shutdown(t)
    \/ \E t \in 1..Len(tasks), data \in RecvData : server_read_data(t, data, ServerMsgs)

\* the steps of the tasks of a UDP session
UdpTasks ==
    \/ \E t \in 1..Len(tasks) : udp_bind_err(t)
    \/ \E t \in 1..Len(tasks) : udp_parse_err(t)
    \/ \E t \in 1..Len(tasks) : udp_bind_ok(t)
    \/ \E t \in 1..Len(tasks) : udp_install_socket(t)
    \/ \E t \in 1..Len(tasks) : udp_send_ok(t)
    \/ \E t \in 1..Len(tasks) : udp_send_no_target(t)
    \/ \E t \in 1..Len(tasks) : udp_send_err(t)
    \/ \E t \in 1..Len(tasks) : udp_send_closed(t)
    \/ \E t \in 1..Len(tasks) : udp_recv_shutdown(t)
    \/ \E t \in 1..Len(tasks) : udp_recv_cleanup_socket(t)
    \/ \E t \in 1..Len(tasks) : udp_recv_cleanup_status(t)
    \/ \E t \in 1..Len(tasks) : install_shutdown(t)
    \/ \E t \in 1..Len(tasks), data \in RecvData : udp_recv_data(t, data, MaxMsgs)

\* the commands of one caller on sessions created from the inputs given
NcCommands(inputs, sends, maxMsgs) ==
    \/ \E input \in inputs : netcat_create_session(1, input)
    \/ CreateSteps(1)
    \/ \E id \in SessionIds : netcat_start_session(1, id, NcStarts)
    \/ \E id \in SessionIds : netcat_stop_session(1, id)
    \/ NcStopSteps(1)
    \/ \E id \in SessionIds, input \in sends : netcat_send_message(1, id, input, maxMsgs)
    \/ send_record(1)

SessionInputs(protocol, modes) ==
    {input \in NetcatSessionInput : input.protocol = protocol /\ input.mode \in modes}

\* a UDP session of either mode: start, stop, send with and without a destination, and
\* every step of its tasks
NextUdp ==
    \/ NcCommands(SessionInputs("udp", {"client", "server"}), UdpSends, MaxMsgs)
    \/ send_udp_data(1)
    \/ UdpTasks

SpecUdp == Init /\ [][NextUdp]_vars

\* on a TCP client session: no target
TcpClientSends == {input \in SendMessageInput : input.broadcast = None
                                                 /\ input.target_client = None}

\* a TCP client session: start, stop, send, and every step of its tasks
NextTcpClient ==
    \/ NcCommands(SessionInputs("tcp", {"client"}), TcpClientSends, MaxMsgs)
    \/ send_tcp_client_data(1)
    \/ TcpClientTasks

SpecTcpClient == Init /\ [][NextTcpClient]_vars

\* on a TCP server session: no target, the first client id, with and without broadcast
TcpServerSends == {input \in SendMessageInput :
                      input.target_client \in {None, Some(ClientTarget(MaxSessions + 1))}}

\* a TCP server session with one client: start, stop, send, and every step of its tasks
NextTcpServer ==
    \/ NcCommands(SessionInputs("tcp", {"server"}), TcpServerSends, ServerMsgs)
    \/ broadcast_to_clients(1)
    \/ send_to_client(1)
    \/ send_no_target(1)
    \/ TcpServerTasks
    \/ \E t \in 1..Len(tasks) : tcp_server_accept(t, ServerClients)

SpecTcpServer == Init /\ [][NextTcpServer]_vars

RECURSIVE Strings(_, _)
\* the strings of up to n characters of an alphabet
Strings(alphabet, n) ==
    IF n = 0 THEN {<<>>}
    ELSE LET shorter == Strings(alphabet, n - 1)
         IN shorter \cup {Append(str, ch) : str \in shorter, ch \in alphabet}

\* hex digits, the letter of the 0x prefix, a space, and a letter that is none of these
HexAlphabet == {"0", "4", "x", " ", "g"}

\* hex payloads without target: every string of the alphabet, and two with a 0X prefix
HexSends ==
    {[data |-> str, format |-> "hex", target_client |-> None, broadcast |-> None] :
        str \in Strings(HexAlphabet, HexLen) \cup {<<"0", "X", "4">>, <<"0", "X", "4", "4">>}}

\* a UDP client session with a valid target is started, and hex payloads are sent on it
NextHex ==
    \/ netcat_create_session(1, [protocol |-> "udp", mode |-> "client",
                                 host |-> "127.0.0.1", port |-> 1,
                                 auto_reconnect |-> None])
    \/ CreateSteps(1)
    \/ \E id \in SessionIds : netcat_start_session(1, id, NcStarts)
    \/ \E id \in SessionIds, input \in HexSends : netcat_send_message(1, id, input, HexMsgs)
    \/ send_udp_data(1)
    \/ send_record(1)
    \/ \E t \in 1..Len(tasks) : udp_bind_ok(t)
    \/ \E t \in 1..Len(tasks) : install_shutdown(t)
    \/ \E t \in 1..Len(tasks) : udp_install_socket(t)
    \/ \E t \in 1..Len(tasks) : udp_send_ok(t)

SpecHex == Init /\ [][NextHex]_vars

\* a TCP session of either mode
NextTcp ==
    \/ NextTcpClient
    \/ NextTcpServer

SpecTcp == Init /\ [][NextTcp]_vars

\* every connection the forwarder has accepted has run to its end
ConnectionsEnded == \A k \in 1..Len(conns) : conns[k].pc = "done"

\* SpecConn: connections that fail inside their parent.  Rule 1 is started and up to
\* MaxClients clients connect to it, each sending one byte; a TCP server session is
\* started, up to MaxClients clients connect to it and disconnect.  The two engines
\* share no state, so their steps are not interleaved: the forwarder runs while the
\* netcat engine is as NcInit leaves it, the netcat engine while no connection of the
\* forwarder is open.
NextConn ==
    \/ NcInit /\ start_forwarding_invoke(1, 1, RelayStarts)
    \/ NcInit /\ StartSteps(1)
    \/ NcInit /\ \E s \in 1..Len(servers) : run_forward_server_bind_ok(s)
    \/ NcInit /\ \E s \in 1..Len(servers), up \in {<<0>>}, down \in {<<>>} :
                    run_forward_server_accept(s, up, down, MaxClients)
    \/ NcInit /\ \E s \in 1..Len(servers) : run_forward_server_acquire(s)
    \/ NcInit /\ \E k \in 1..Len(conns) : connection_task_inc(k)
    \/ NcInit /\ \E k \in 1..Len(conns) : update_rule_stats_read(k)
    \/ NcInit /\ \E k \in 1..Len(conns) : update_rule_stats_write(k)
    \/ NcInit /\ \E k \in 1..Len(conns) : handle_connection_connect_ok(k)
    \/ NcInit /\ \E k \in 1..Len(conns) : handle_connection_connect_err(k)
    \/ NcInit /\ \E k \in 1..Len(conns) : handle_connection_join(k)
    \/ NcInit /\ \E k \in 1..Len(conns) : connection_task_dec(k)
    \/ NcInit /\ \E k \in 1..Len(conns), d \in Dirs : copy_loop_read_eof(k, d)
    \/ NcInit /\ \E k \in 1..Len(conns), d \in Dirs : copy_loop_read_err(k, d)
    \/ NcInit /\ \E k \in 1..Len(conns), d \in Dirs : copy_loop_shutdown(k, d)
    \/ NcInit /\ \E k \in 1..Len(conns), d \in Dirs, n \in 1..BufSize :
                    copy_loop_read_data(k, d, n)
    \/ NcInit /\ \E k \in 1..Len(conns), d \in Dirs : copy_loop_write_ok(k, d)
    \/ NcInit /\ \E k \in 1..Len(conns), d \in Dirs, j \in 0..(BufSize - 1) :
                    copy_loop_write_err(k, d, j)
    \/ ConnectionsEnded /\ \E input \in SessionInputs("tcp", {"server"}) :
                           netcat_create_session(1, input)
    \/ ConnectionsEnded /\ CreateSteps(1)
    \/ ConnectionsEnded /\ \E id \in SessionIds : netcat_start_session(1, id, NcStarts)
    \/ ConnectionsEnded /\ \E t \in 1..Len(tasks) : tcp_server_bind_ok(t)
    \/ ConnectionsEnded /\ \E t \in 1..Len(tasks) : tcp_server_init_clients(t)
    \/ ConnectionsEnded /\ \E t \in 1..Len(tasks) : install_shutdown(t)
    \/ ConnectionsEnded /\ \E t \in 1..Len(tasks) : tcp_server_accept(t, MaxClients)
    \/ ConnectionsEnded /\ \E t \in 1..Len(tasks) : tcp_server_register(t)
    \/ ConnectionsEnded /\ \E t \in 1..Len(tasks) : server_read_eof(t)
    \/ ConnectionsEnded /\ \E t \in 1..Len(tasks) : server_read_err(t)
    \/ ConnectionsEnded /\ \E t \in 1..Len(tasks) : handle_client_disconnect_state(t)
    \/ ConnectionsEnded /\ \E t \in 1..Len(tasks) : handle_client_disconnect_sender(t)
    \/ ConnectionsEnded /\ \E t \in 1..Len(tasks) : server_send_closed(t)

SpecConn == InitRestart /\ [][NextConn]_vars

\* on any session: a text payload without a target, broadcast or not
LogSends == {input \in SendMessageInput :
                input.format = "text" /\ input.target_client = None}

\* SpecLog: a session of any of the four kinds is started, its peer accepts everything
\* sent and sends chunks back, until the session has counted MaxMsgs messages, one more
\* than its log keeps.
NextLog ==
    \/ \E input \in NetcatSessionInput : netcat_create_session(1, input)
    \/ CreateSteps(1)
    \/ \E id \in SessionIds : netcat_start_session(1, id, NcStarts)
    \/ \E id \in SessionIds, input \in LogSends : netcat_send_message(1, id, input, MaxMsgs)
    \/ send_tcp_client_data(1)
    \/ broadcast_to_clients(1)
    \/ send_no_target(1)
    \/ send_udp_data(1)
    \/ send_record(1)
    \/ \E t \in 1..Len(tasks) : install_shutdown(t)
    \/ \E t \in 1..Len(tasks) : tcp_client_connecting(t)
    \/ \E t \in 1..Len(tasks) : tcp_client_connect_ok(t)
    \/ \E t \in 1..Len(tasks) : tcp_client_install_sender(t)
    \/ \E t \in 1..Len(tasks) : client_send_write_ok(t)
    \/ \E t \in 1..Len(tasks), data \in RecvData : client_read_data(t, data, MaxMsgs)
    \/ \E t \in 1..Len(tasks) : tcp_server_bind_ok(t)
    \/ \E t \in 1..Len(tasks) : tcp_server_init_clients(t)
    \/ \E t \in 1..Len(tasks) : tcp_server_accept(t, ServerClients)
    \/ \E t \in 1..Len(tasks) : tcp_server_register(t)
    \/ \E t \in 1..Len(tasks) : server_send_write_ok(t)
    \/ \E t \in 1..Len(tasks), data \in RecvData : server_read_data(t, data, MaxMsgs)
    \/ \E t \in 1..Len(tasks) : server_handle_received(t)
    \/ \E t \in 1..Len(tasks) : udp_bind_ok(t)
    \/ \E t \in 1..Len(tasks) : udp_install_socket(t)
    \/ \E t \in 1..Len(tasks) : udp_send_ok(t)
    \/ \E t \in 1..Len(tasks) : udp_send_no_target(t)
    \/ \E t \in 1..Len(tasks), data \in RecvData : udp_recv_data(t, data, MaxMsgs)

SpecLog == Init /\ [][NextLog]_vars

\* the bytes a peer sends in SpecDisplay: line feed, "4", "A", and 0xC0 and 0xFF, which
\* make a chunk invalid as UTF-8
ByteSamples == {10, 52, 65, 192, 255}

RECURSIVE ByteSeqs(_)
\* the chunks of up to n of these bytes
ByteSeqs(n) ==
    IF n = 0 THEN {<<>>}
    ELSE ByteSeqs(n - 1) \cup {Append(b, x) : b \in {y \in ByteSeqs(n - 1) : Len(y) = n - 1},
                                              x \in ByteSamples}

\* SpecDisplay: a client of a TCP server session sends one chunk of up to ChunkLen bytes,
\* the session logs it
NextDisplay ==
    \/ \E input \in SessionInputs("tcp", {"server"}) : netcat_create_session(1, input)
    \/ CreateSteps(1)
    \/ \E id \in SessionIds : netcat_start_session(1, id, NcStarts)
    \/ \E t \in 1..Len(tasks) : tcp_server_bind_ok(t)
    \/ \E t \in 1..Len(tasks) : tcp_server_init_clients(t)
    \/ \E t \in 1..Len(tasks) : install_shutdown(t)
    \/ \E t \in 1..Len(tasks) : tcp_server_accept(t, ServerClients)
    \/ \E t \in 1..Len(tasks) : tcp_server_register(t)
    \/ \E t \in 1..Len(tasks), data \in ByteSeqs(ChunkLen) \ {<<>>} :
          server_read_data(t, data, HexMsgs)
    \/ \E t \in 1..Len(tasks) : server_handle_received(t)

SpecDisplay == Init /\ [][NextDisplay]_vars

\* a UDP server on an IPv4 address and one on the IPv6 wildcard address
PeerSessionInput ==
    {[protocol |-> "udp", mode |-> "server", host |-> h, port |-> 1, auto_reconnect |-> None] :
        h \in {"127.0.0.1", "[::]"}}

\* SpecPeers: a UDP server session is started and receives up to MaxMsgs datagrams from
\* the peers of its address family
NextPeers ==
    \/ \E input \in PeerSessionInput : netcat_create_session(1, input)
    \/ CreateSteps(1)
    \/ \E id \in SessionIds : netcat_start_session(1, id, NcStarts)
    \/ \E t \in 1..Len(tasks) : udp_bind_ok(t)
    \/ \E t \in 1..Len(tasks) : install_shutdown(t)
    \/ \E t \in 1..Len(tasks) : udp_install_socket(t)
    \/ \E t \in 1..Len(tasks), data \in RecvData, addr \in PeerAddrs :
          udp_recv_from(t, data, addr, MaxMsgs)

SpecPeers == Init /\ [][NextPeers]_vars

\* TCP client sessions created without and with auto_reconnect
ReconnectInput ==
    {[protocol |-> "tcp", mode |-> "client", host |-> "127.0.0.1", port |-> 1,
      auto_reconnect |-> a] : a \in {None, Some(TRUE)}}

\* SpecReconnect: a TCP client session with or without auto_reconnect: start, stop, send,
\* and every step of its tasks
NextReconnect ==
    \/ NcCommands(ReconnectInput, TcpClientSends, HexMsgs)
    \/ send_tcp_client_data(1)
    \/ TcpClientTasks

SpecReconnect == Init /\ [][NextReconnect]_vars

\* a run is followed up to a netcat_init that finds tasks of the engine: these hold the
\* SessionState that the load has taken out of the manager
Followed == nc_calls[1].op # "init" \/ tasks = <<>>

\* SpecLoad: a TCP client session is created, started, stopped and sent to while its
\* tasks run, and netcat_init is called at any time
NextLoad ==
    \/ netcat_init(1)
    \/ Followed /\ \E input \in SessionInputs("tcp", {"client"}) : netcat_create_session(1, input)
    \/ Followed /\ CreateSteps(1)
    \/ Followed /\ \E id \in SessionIds : netcat_start_session(1, id, NcStarts)
    \/ Followed /\ \E id \in SessionIds : netcat_stop_session(1, id)
    \/ Followed /\ NcStopSteps(1)
    \/ Followed /\ \E id \in SessionIds, input \in TcpClientSends :
                      netcat_send_message(1, id, input, HexMsgs)
    \/ Followed /\ send_tcp_client_data(1)
    \/ Followed /\ send_record(1)
    \/ Followed /\ \E t \in 1..Len(tasks) : tcp_client_connecting(t)
    \/ Followed /\ \E t \in 1..Len(tasks), msg \in ConnectErrors : tcp_client_connect_err(t, msg)
    \/ Followed /\ \E t \in 1..Len(tasks) : tcp_client_connect_ok(t)
    \/ Followed /\ \E t \in 1..Len(tasks) : install_shutdown(t)
    \/ Followed /\ \E t \in 1..Len(tasks) : tcp_client_install_sender(t)
    \/ Followed /\ \E t \in 1..Len(tasks) : client_read_shutdown(t)
    \/ Followed /\ \E t \in 1..Len(tasks) : client_read_eof(t)
    \/ Followed /\ \E t \in 1..Len(tasks) : client_read_err(t)
    \/ Followed /\ \E t \in 1..Len(tasks) : client_read_cleanup(t)
    \/ Followed /\ \E t \in 1..Len(tasks), data \in RecvData : client_read_data(t, data, HexMsgs)
    \/ Followed /\ \E t \in 1..Len(tasks) : client_send_write_ok(t)
    \/ Followed /\ \E t \in 1..Len(tasks) : client_send_write_err(t)
    \/ Followed /\ \E t \in 1..Len(tasks) : client_send_closed(t)

SpecLoad == Init /\ [][NextLoad]_vars

\* SpecPorts: a run begins with a scanner command, get_common_ports or check_port of any
\* port, and the command returns
InitPorts == EnginesInit /\ rules_file = OldSnapshot /\ scan_result \in ScanCalls

NextPorts ==
    \/ get_common_ports
    \/ \E status \in PortStatuses : check_port(status)

SpecPorts == InitPorts /\ [][NextPorts]_vars


----------------------------------------------------------------------------
(* Properties *)

Running(id) == id \in DOMAIN FORWARD_RULES /\ FORWARD_RULES[id].status = "running"

\* C1: in every reachable state no two rules whose registry status is Running have the
\* same local_port.
C1_RunningPortsUnique ==
    \A a, b \in DOMAIN FORWARD_RULES :
        (a # b /\ Running(a) /\ Running(b))
            => FORWARD_RULES[a].local_port # FORWARD_RULES[b].local_port

\* the call of caller c returns in this step
Returns(c, o) == calls[c].op = o /\ calls[c].pc \notin {"idle", "done"} /\ calls'[c].pc = "done"

\* another rule is Running on the local port of rule id
PortTakenByOther(id) ==
    \E a \in DOMAIN FORWARD_RULES :
        a # id /\ Running(a) /\ FORWARD_RULES[a].local_port = FORWARD_RULES[id].local_port

\* C2: when start_forwarding(B) returns while another rule A is Running on B's local
\* port, it returns a conflict error and B is Stopped (the start can only succeed once A
\* has been stopped).
C2_StartRejectsPortConflict ==
    [][\A c \in Callers :
          (Returns(c, "start") /\ calls[c].rule_id \in DOMAIN FORWARD_RULES
             /\ PortTakenByOther(calls[c].rule_id))
          => (calls'[c].result = "err_conflict"
              /\ Get(FORWARD_RULES', calls[c].rule_id).status = "stopped")]_vars

\* C3: every step of an add_forward_rule call whose input has local_port = 0,
\* remote_port = 0 or an empty remote_host returns the validation error and leaves the
\* registry and the snapshot file as they are.  (The call's first statement,
\* ensure_rules_loaded, is the step that invokes it: on the first command of a run it
\* fills the registry with the content of the snapshot.)
C3_InvalidAddChangesNothing ==
    [][\A c \in Callers :
          (calls[c].op = "add" /\ calls[c].pc \notin {"idle", "done"} /\ calls'[c] # calls[c]
             /\ (calls[c].input.local_port = 0 \/ calls[c].input.remote_port = 0
                   \/ calls[c].input.remote_host = ""))
          => (calls'[c].pc = "done" /\ calls'[c].result = "err_validation"
              /\ FORWARD_RULES' = FORWARD_RULES /\ rules_file' = rules_file)]_vars

\* C3 witness: an add has been rejected by the validation while the registry holds a rule
C3_Witness ==
    /\ calls[1].op = "add" /\ calls[1].pc = "done" /\ calls[1].result = "err_validation"
    /\ FORWARD_RULES # EmptyMap
    /\ rules_file # EmptyMap

\* the bind of the server task s has failed
BindFailed(s) == servers[s].pc \in {"exit", "done"} /\ ~servers[s].bound

\* C4: when the listener cannot be bound, start_forwarding itself returns an error: no
\* start that has returned Ok belongs to a server task whose bind failed.
C4_BindFailureIsReturned ==
    \A c \in Callers :
        (calls[c].op = "start" /\ calls[c].pc = "done" /\ calls[c].result = "ok")
            => ~BindFailed(calls[c].ctrl)

\* C5: when stop_forwarding(id) has returned, the rule's status is Stopped, the stop flag
\* of the controller that was registered for id is set and the controller table has no
\* entry for id, whatever the connection tasks are doing.
C5_StopReturned ==
    \A c \in Callers :
        (calls[c].op = "stop" /\ calls[c].pc = "done")
            => /\ calls[c].rule_id \in DOMAIN FORWARD_RULES
                    => FORWARD_RULES[calls[c].rule_id].status = "stopped"
               /\ calls[c].rule_id \notin DOMAIN FORWARD_CONTROLLERS
               /\ calls[c].ctrl # 0 => controllers[calls[c].ctrl].stop

\* C5 witness: stop has returned for a rule that was Running, while a relay of that
\* controller is still in flight
C5_Witness ==
    /\ calls[1].op = "stop" /\ calls[1].pc = "done" /\ calls[1].ctrl # 0
    /\ \E k \in 1..Len(conns) : conns[k].server = calls[1].ctrl /\ conns[k].pc = "relay"

\* C6: after stop_forwarding(id) has returned, the registry entry's connections, bytes_in
\* and bytes_out are 0 (and stay 0 until the rule is started again).
C6_StopResetsStats ==
    \A c \in Callers :
        (calls[c].op = "stop" /\ calls[c].pc = "done" /\ calls[c].rule_id \in DOMAIN FORWARD_RULES)
            => /\ FORWARD_RULES[calls[c].rule_id].connections = 0
               /\ FORWARD_RULES[calls[c].rule_id].bytes_in = 0
               /\ FORWARD_RULES[calls[c].rule_id].bytes_out = 0

Holders(s) ==
    {k \in 1..Len(conns) :
        conns[k].server = s /\ conns[k].pc \notin {"accepted", "done"}}

Relaying(s) == {k \in 1..Len(conns) : conns[k].server = s /\ conns[k].pc = "relay"}

\* connection k has been accepted and its handler has not been spawned yet
WaitsForPermit(k) == k <= Len(conns) /\ conns[k].pc = "accepted"

\* C8: per controller at most MaxPermits relays are active and the connections counter
\* never exceeds MaxPermits; a connection accepted while no permit is free is held by the
\* accept loop (never dropped) and its handler is started once a permit is free.
C8_PermitsBoundConnections ==
    /\ [](\A s \in 1..Len(servers) :
             /\ controllers[s].connections <= MaxPermits
             /\ Cardinality(Relaying(s)) <= MaxPermits
             /\ Cardinality(Holders(s)) + servers[s].permits = MaxPermits)
    /\ [][\A k \in 1..Len(conns) :
             conns[k].pc = "accepted" => conns'[k].pc \in {"accepted", "inc"}]_vars
    /\ \A k \in 1..SemConns :
          (WaitsForPermit(k) /\ servers[conns[k].server].permits > 0) ~> ~WaitsForPermit(k)

\* C8 witness: every permit is taken by an active relay and one more accepted connection
\* waits for a permit
C8_Witness ==
    \E s \in 1..Len(servers) :
        /\ servers[s].pc = "acquire" /\ servers[s].permits = 0
        /\ conns[servers[s].inbound].pc = "accepted"
        /\ Cardinality(Relaying(s)) = MaxPermits
        /\ controllers[s].connections = MaxPermits

\* C9: in each direction of a relay the bytes written to the destination are a prefix of
\* the bytes read from the source, in order and unmodified, for every split into chunks
\* of at most BufSize bytes; when the direction ends by EOF the two are equal.
C9_WrittenIsPrefixOfRead ==
    \A k \in 1..Len(conns), d \in Dirs :
        /\ IsPrefix(Dir(k, d).wr, Dir(k, d).rd)
        /\ Dir(k, d).pc = "write" => Dir(k, d).rd = Dir(k, d).wr \o Dir(k, d).chunk
        /\ Dir(k, d).why = "eof" => Dir(k, d).wr = Dir(k, d).rd

\* C9 witness: a payload one byte longer than the buffer has gone through, up to EOF
C9_Witness ==
    \E k \in 1..Len(conns), d \in Dirs :
        /\ Dir(k, d).why = "eof"
        /\ Len(Dir(k, d).wr) = BufSize + 1
        /\ \E i, j \in 1..Len(Dir(k, d).wr) : Dir(k, d).wr[i] # Dir(k, d).wr[j]

LoopRunning(r) == r.pc \in {"read", "write"}

\* C10: a direction that ends (EOF, error or stop flag) goes to the shutdown of its own
\* write half and leaves the other direction and the connection task as they are; the
\* task goes on to dec_connections, and so to the release of its permit, only when both
\* directions have ended; while it relays it is counted and holds its permit.
C10_DirectionsEndIndependently ==
    /\ [](\A k \in 1..Len(conns) :
             /\ (conns[k].pc \in {"dec", "stats2", "write2", "done"} /\ conns[k].c2s.pc # "idle")
                    => (conns[k].c2s.pc = "end" /\ conns[k].s2c.pc = "end")
             /\ conns[k].pc = "relay"
                    => /\ controllers[conns[k].server].connections >= 1
                       /\ servers[conns[k].server].permits < MaxPermits)
    /\ [][\A k \in 1..Len(conns), d \in Dirs :
             /\ (LoopRunning(Dir(k, d)) /\ ~LoopRunning(DirOf(conns', k, d)))
                    => /\ DirOf(conns', k, d).pc = "shutdown"
                       /\ DirOf(conns', k, Other(d)) = Dir(k, Other(d))
                       /\ conns'[k].pc = "relay"
             /\ (Dir(k, d).pc # "end" /\ DirOf(conns', k, d).pc = "end")
                    => /\ Dir(k, d).pc = "shutdown"
                       /\ DirOf(conns', k, Other(d)) = Dir(k, Other(d))
                       /\ conns'[k].pc = "relay"]_vars

\* C10 witness: one direction has ended by EOF or an error and the other one is writing
\* a chunk it has read since
C10_Witness ==
    \E k \in 1..Len(conns), d \in Dirs :
        /\ conns[k].pc = "relay"
        /\ Dir(k, d).pc = "end" /\ Dir(k, d).why \in {"eof", "read_err", "write_err"}
        /\ Dir(k, d).rd = <<>>
        /\ Dir(k, Other(d)).pc = "write"

----------------------------------------------------------------------------
\* the steps of the task of connection k after it has been spawned
ConnectionTaskStep(k) == conns[k].pc # "accepted" /\ conns'[k] # conns[k]

\* the steps of the read task and of the send task of a client of a TCP server
ClientTaskStep(t) ==
    /\ tasks[t].kind \in {"server_read", "server_send"}
    /\ tasks'[t] # tasks[t]

\* connection k has ended by an error of the given kind in the direction client to remote
EndedBy(k, why) == conns[k].pc = "done" /\ conns[k].c2s.why = why

\* C11: no step of the task of one connection of a forwarding rule (a failed connect and
\* a read or write error of a copy loop among them) changes the status of the rule, the
\* position of its accept loop, its stop flag or its registration; no step of the read
\* task or the send task of one client of a TCP server session (a read error and a
\* disconnect among them) changes the status of the session, the other clients in its
\* client table, their senders and channels, or any task of the session other than those
\* of the client itself.
C11_ConnectionFailureStaysLocal ==
    [][/\ \A k \in 1..Len(conns) :
            ConnectionTaskStep(k) =>
                /\ \A id \in DOMAIN FORWARD_RULES :
                       /\ id \in DOMAIN FORWARD_RULES'
                       /\ FORWARD_RULES'[id].status = FORWARD_RULES[id].status
                /\ servers'[conns[k].server].pc = servers[conns[k].server].pc
                /\ controllers'[conns[k].server].stop = controllers[conns[k].server].stop
                /\ FORWARD_CONTROLLERS' = FORWARD_CONTROLLERS
       /\ \A t \in 1..Len(tasks) :
            ClientTaskStep(t) =>
                LET id == tasks[t].session
                    cl == tasks[t].client
                IN /\ id \in DOMAIN sessions'
                   /\ sessions'[id].status = sessions[id].status
                   /\ sessions'[id].clients \ {cl} = sessions[id].clients \ {cl}
                   /\ id \in DOMAIN SERVER_CLIENTS =>
                          /\ id \in DOMAIN SERVER_CLIENTS'
                          /\ \A o \in DOMAIN SERVER_CLIENTS[id] \ {cl} :
                                 /\ o \in DOMAIN SERVER_CLIENTS'[id]
                                 /\ SERVER_CLIENTS'[id][o] = SERVER_CLIENTS[id][o]
                                 /\ send_channels'[SERVER_CLIENTS[id][o]] =
                                        send_channels[SERVER_CLIENTS[id][o]]
                   /\ \A h \in 1..Len(tasks) :
                          tasks[h].client # cl => tasks'[h] = tasks[h]]_vars

\* C11 witness: the first connection of Running rule 1 has ended by a write error and a
\* second one by a read error while the accept loop is in its loop and not stopped; one
\* client of a Listening TCP server has been taken out after its read ended while another
\* client is in the client table, has its sender registered and is being read
C11_Witness ==
    /\ Running(1)
    /\ Len(conns) = MaxClients
    /\ EndedBy(1, "write_err")
    /\ EndedBy(2, "read_err")
    /\ \E s \in 1..Len(servers) : servers[s].pc = "loop" /\ ~controllers[s].stop
    /\ \E id \in DOMAIN sessions, t, h \in 1..Len(tasks) :
        /\ sessions[id].status = "listening"
        /\ tasks[t].kind = "server_read" /\ tasks[t].session = id /\ tasks[t].pc = "done"
        /\ tasks[t].client \notin sessions[id].clients
        /\ tasks[h].kind = "server_read" /\ tasks[h].session = id /\ tasks[h].pc = "read"
        /\ tasks[h].client \in sessions[id].clients
        /\ id \in DOMAIN SERVER_CLIENTS
        /\ tasks[h].client \in DOMAIN SERVER_CLIENTS[id]
        /\ send_channels[SERVER_CLIENTS[id][tasks[h].client]].tx_alive

----------------------------------------------------------------------------
\* the handlers of server s that have incremented the counter and not yet decremented it
ActiveHandlers(s) ==
    {k \in 1..Len(conns) : conns[k].server = s
                           /\ conns[k].pc \in {"stats1", "write1", "connect", "relay", "dec"}}

RECURSIVE BytesRead(_, _, _)
\* the bytes the copy loops of direction d of the first k connections of server s have read
BytesRead(s, d, k) ==
    IF k = 0 THEN 0
    ELSE BytesRead(s, d, k - 1)
         + (IF conns[k].server = s THEN Len(Dir(k, d).rd) ELSE 0)

\* every connection of the run has been accepted and its handler task has finished
AllEnded == Len(conns) = StatsConns /\ \A k \in 1..Len(conns) : conns[k].pc = "done"

\* what get_forward_rule(1) returns once every connection has ended
ReportsTotals(call) ==
    /\ DOMAIN call.value = {1}
    /\ call.value[1].connections = 0
    /\ call.value[1].bytes_in = BytesRead(1, "s2c", Len(conns))
    /\ call.value[1].bytes_out = BytesRead(1, "c2s", Len(conns))

----------------------------------------------------------------------------
\* v lies between lo and hi
Between(lo, v, hi) == lo <= v /\ v <= hi

\* C13: get_forward_rule returns, for a Running rule, byte counters that its controller
\* held at a time between the call's read of the controller and its return.  The byte
\* counters of a controller only grow, so such a value lies between the value the call
\* read and the value the controller holds when the call returns.
C13_GetReturnsControllerValues ==
    [][\A c \in Callers :
          (Returns(c, "get_rule") /\ calls[c].stats.some /\ Running(calls[c].rule_id)
              /\ calls[c].rule_id \in DOMAIN FORWARD_CONTROLLERS)
          => LET id == calls[c].rule_id
                 ctl == controllers[FORWARD_CONTROLLERS[id]]
             IN /\ id \in DOMAIN calls'[c].value
                /\ Between(calls[c].stats.bytes_in, calls'[c].value[id].bytes_in, ctl.bytes_in)
                /\ Between(calls[c].stats.bytes_out, calls'[c].value[id].bytes_out,
                           ctl.bytes_out)]_vars

----------------------------------------------------------------------------
\* C14: the status of a session changes only along the edges of the documented state
\* machine: to Connecting by a start, to Connected or Listening from Connecting only, to
\* Disconnected or Error from any status; in particular no session becomes Connected or
\* Listening without being Connecting first.
C14_StatusFollowsStateMachine ==
    [][\A id \in DOMAIN sessions :
          (id \in DOMAIN sessions' /\ sessions'[id].status # sessions[id].status)
          => \/ sessions'[id].status \in {"disconnected", "error", "connecting"}
             \/ /\ sessions'[id].status \in {"connected", "listening"}
                /\ sessions[id].status = "connecting"]_vars

----------------------------------------------------------------------------
\* call c returns from the operation op with the result res in this step
NcReturns(c, op, res) ==
    /\ nc_calls[c].op = op /\ nc_calls[c].pc # "done"
    /\ nc_calls'[c].pc = "done" /\ nc_calls'[c].result = res

\* C15: when a stop_session that found the shutdown sender of a started session returns,
\* the session is Disconnected with no error message and no entry of the session is left
\* in any of the sender tables (TCP_SENDERS, SERVER_CLIENTS, UDP_SOCKETS).
C15_StopClearsSenderTables ==
    [][\A c \in Callers :
          (NcReturns(c, "stop", "ok") /\ nc_calls[c].stopped)
          => LET id == nc_calls[c].session_id
             IN /\ sessions'[id].status = "disconnected"
                /\ sessions'[id].error_message = None
                /\ id \notin DOMAIN TCP_SENDERS'
                /\ id \notin DOMAIN SERVER_CLIENTS'
                /\ id \notin DOMAIN UDP_SOCKETS']_vars

----------------------------------------------------------------------------
\* the start task t fails in this step: it ends before it has installed a shutdown sender
StartFails(t) ==
    /\ tasks[t].kind \in StartTaskKinds
    /\ tasks[t].pc \in {"begin", "connect"}
    /\ tasks'[t].pc = "done"

\* the task that start_tcp_server spawns to record a bind failure is pending for session id
BindErrorPending(id) ==
    \E h \in 1..Len(tasks') : /\ tasks'[h].kind = "bind_error" /\ tasks'[h].pc = "set"
                              /\ tasks'[h].session = id

\* C16: a failed start of a session (TCP client connect error or timeout, TCP server bind
\* failure, UDP bind or address-parse failure) leaves the session in the registry with
\* status Error and an error message (for a TCP server: as soon as the task spawned for
\* it has run).
C16_FailedStartSetsError ==
    [][\A t \in 1..Len(tasks) :
          StartFails(t)
          => LET id == tasks[t].session
             IN /\ id \in DOMAIN sessions'
                /\ \/ BindErrorPending(id)
                   \/ /\ sessions'[id].status = "error"
                      /\ sessions'[id].error_message # None]_vars

----------------------------------------------------------------------------
\* a send channel with a live Receiver is stored under the key
LiveSender(table, k) == k \in DOMAIN table /\ send_channels[table[k]].rx_alive

\* the routing step of the send_message call c finds no destination: a TCP client session
\* without live sender, a TCP server session sent to a client without live sender, a TCP
\* server session given neither target nor broadcast
NoDestination(c) ==
    LET id == nc_calls[c].session_id
        input == nc_calls[c].input
    IN \/ /\ sessions[id].protocol = "tcp" /\ sessions[id].mode = "client"
          /\ ~LiveSender(TCP_SENDERS, id)
       \/ /\ sessions[id].protocol = "tcp" /\ sessions[id].mode = "server"
          /\ input.broadcast # Some(TRUE)
          /\ \/ input.target_client = None
             \/ id \notin DOMAIN SERVER_CLIENTS
             \/ ~LiveSender(SERVER_CLIENTS[id], input.target_client[1].id)

\* C17: send_message fails, appends no message, leaves message_count unchanged and sends
\* nothing whenever it finds no destination: no step of such a call changes a session or
\* a send channel, and its routing step returns an error.
C17_SendWithoutDestinationFails ==
    [][\A c \in Callers :
          /\ (nc_calls'[c] # nc_calls[c] /\ nc_calls'[c].op = "send"
                  /\ nc_calls[c].pc # "send_record")
             => sessions' = sessions
          /\ (nc_calls'[c] # nc_calls[c] /\ nc_calls[c].pc = "send_route" /\ NoDestination(c))
             => /\ nc_calls'[c].pc = "done"
                /\ nc_calls'[c].result \notin {"ok", "none"}
                /\ send_channels' = send_channels]_vars

\* a send to a client id that is not connected has failed on a Listening server, and
\* nothing has been logged
C17_Witness ==
    /\ nc_calls[1].op = "send" /\ nc_calls[1].pc = "done"
    /\ nc_calls[1].result = "err_no_client"
    /\ sessions[1].status = "listening"
    /\ sessions[1].messages = <<>> /\ sessions[1].message_count = 0

----------------------------------------------------------------------------
\* the characters of a hex payload that are left when its 0x and 0X prefixes and its
\* whitespace are removed
HexPayload(data) ==
    SelectSeq(replace(replace(data, <<"0", "x">>), <<"0", "X">>),
              LAMBDA ch : ~is_whitespace(ch))

\* the payload resolves to hex digits only
WellFormedHex(data) ==
    \A i \in 1..Len(HexPayload(data)) : is_ascii_hexdigit(HexPayload(data)[i])

\* call c is invoked as a send_message in this step
InvokesSend(c) ==
    /\ nc_calls[c].pc \in {"idle", "done"}
    /\ nc_calls'[c] # nc_calls[c]
    /\ nc_calls'[c].op = "send"

\* C18: send_message on an existing session with format = hex whose payload resolves to an
\* odd number of hex digits fails at once: it sends nothing, appends no message and leaves the session's
\* counters and everything else unchanged.
C18_OddHexFailsWithoutEffect ==
    [][\A c \in Callers :
          (InvokesSend(c) /\ nc_calls'[c].input.format = "hex"
              /\ nc_calls'[c].session_id \in DOMAIN sessions
              /\ WellFormedHex(nc_calls'[c].input.data)
              /\ Len(HexPayload(nc_calls'[c].input.data)) % 2 = 1)
          => /\ nc_calls'[c].pc = "done"
             /\ nc_calls'[c].result = "err_parse"
             /\ UNCHANGED <<sessions, sessions_file, TCP_SENDERS, SERVER_CLIENTS, UDP_SOCKETS,
                            shutdown_channels, send_channels, tasks>>]_vars

\* the payload "0x4" has been refused on a Connected session whose socket is registered
C18_Witness ==
    /\ nc_calls[1].op = "send" /\ nc_calls[1].pc = "done"
    /\ nc_calls[1].result = "err_parse"
    /\ nc_calls[1].input.data = <<"0", "x", "4">>
    /\ sessions[1].status = "connected"
    /\ 1 \in DOMAIN UDP_SOCKETS
    /\ sessions[1].message_count = 0

----------------------------------------------------------------------------
\* C19: a hex payload with a character that is neither a hex digit nor whitespace nor part
\* of a 0x or 0X prefix is rejected with an error; it is never decoded to bytes.
C19_MalformedHexRejected ==
    [][\A c \in Callers :
          (InvokesSend(c) /\ nc_calls'[c].input.format = "hex"
              /\ nc_calls'[c].session_id \in DOMAIN sessions
              /\ ~WellFormedHex(nc_calls'[c].input.data))
          => /\ nc_calls'[c].pc = "done"
             /\ nc_calls'[c].result = "err_parse"]_vars

----------------------------------------------------------------------------
\* the routing step of the send_message call c, on a UDP session, without destination
RoutesUdpWithoutDestination(c) ==
    /\ nc_calls[c].pc = "send_route"
    /\ nc_calls'[c] # nc_calls[c]
    /\ sessions[nc_calls[c].session_id].protocol = "udp"
    /\ nc_calls[c].input.target_client = None

\* C20: a send_message without destination on a UDP session: in client mode, when it is
\* accepted, the datagram is queued for the session's configured host:port and the send
\* task sends every datagram to its address; in server mode the call fails, queues no
\* datagram and appends no Sent message.
C20_UdpSendWithoutDestination ==
    [][/\ \A c \in Callers :
             RoutesUdpWithoutDestination(c)
             => LET id == nc_calls[c].session_id
                    ch == UDP_SOCKETS[id].send_tx
                IN IF sessions[id].mode = "client"
                   THEN nc_calls'[c].pc = "send_record"
                        => /\ send_channels'[ch].queue # <<>>
                           /\ send_channels'[ch].queue[Len(send_channels'[ch].queue)]
                                  = [data |-> nc_calls[c].data,
                                     addr |-> Some(SocketAddr(sessions[id].host,
                                                              sessions[id].port))]
                   ELSE /\ nc_calls'[c].pc = "done"
                        /\ nc_calls'[c].result \notin {"ok", "none"}
                        /\ send_channels' = send_channels
                        /\ sessions' = sessions
        /\ \A k \in 1..Len(send_channels) :
              (Len(send_channels'[k].written) > Len(send_channels[k].written))
              => /\ send_channels[k].queue # <<>>
                 /\ Head(send_channels[k].queue).addr # None
                    => send_channels'[k].written[Len(send_channels'[k].written)]
                           = [data |-> Head(send_channels[k].queue).data,
                              addr |-> Head(send_channels[k].queue).addr]]_vars

----------------------------------------------------------------------------
\* the last n entries of a sequence
LastEntries(seq, n) == SubSeq(seq, Len(seq) - Min(Len(seq), n) + 1, Len(seq))

----------------------------------------------------------------------------
\* the spawned handler t logs its chunk in this step
LogsChunk(t) ==
    /\ tasks[t].kind = "server_handle"
    /\ tasks[t].pc = "handle"
    /\ tasks'[t].pc = "done"

\* the message a step has appended to the log of a session
Appended(id) == sessions'[id].messages[Len(sessions'[id].messages)]

----------------------------------------------------------------------------
\* a step in which a UDP server session logs a received datagram
UdpServerReceives(id) ==
    /\ sessions[id].protocol = "udp" /\ sessions[id].mode = "server"
    /\ sessions'[id].message_count = sessions[id].message_count + 1
    /\ Appended(id).direction = "received"

\* C23: a datagram that a UDP server session receives is appended as one Received message
\* with the size of its payload; when the client id of its sender is not in the client
\* table the table grows by exactly that client and client_count with it, else the table
\* and client_count stay as they are; and the datagrams in the log that come from distinct
\* peer addresses carry distinct client ids.
C23_OneClientPerPeerAddress ==
    [][\A id \in DOMAIN sessions :
          UdpServerReceives(id) =>
              LET cid == Appended(id).client_id[1]
              IN /\ sessions'[id].clients = sessions[id].clients \cup {cid}
                 /\ sessions'[id].client_count = Cardinality(sessions'[id].clients)
                 /\ Appended(id).size = sessions'[id].bytes_received - sessions[id].bytes_received
                 /\ \A i, j \in 1..Len(sessions'[id].messages) :
                        sessions'[id].messages[i].client_addr
                            # sessions'[id].messages[j].client_addr
                        => sessions'[id].messages[i].client_id
                               # sessions'[id].messages[j].client_id]_vars

----------------------------------------------------------------------------
\* the tasks that start_session has spawned for a session and that have not ended
Attempts(ts, id) ==
    {t \in 1..Len(ts) : ts[t].kind \in StartTaskKinds /\ ts[t].session = id /\ ts[t].pc # "done"}

Idle(status) == status \in {"disconnected", "error"}

\* C24: the task of a connection or bind attempt is spawned only in a step in which a
\* start_session call for that session returns Ok and which changes no session and no
\* other task; and the status of a session that is
\* Disconnected or Error while no such task is under way stays Disconnected or Error,
\* with or without auto_reconnect.
C24_NoAttemptWithoutStart ==
    [][\A id \in DOMAIN sessions :
          /\ ~(Attempts(tasks', id) \subseteq Attempts(tasks, id)) =>
                 /\ \E c \in Callers : /\ nc_calls[c].pc \in {"idle", "done"}
                                       /\ nc_calls'[c].op = "start"
                                       /\ nc_calls'[c].session_id = id
                                       /\ nc_calls'[c].result = "ok"
                 /\ SubSeq(tasks', 1, Len(tasks)) = tasks
                 /\ sessions' = sessions
          /\ (Idle(sessions[id].status) /\ Attempts(tasks, id) = {}) =>
                 (id \in DOMAIN sessions' /\ Idle(sessions'[id].status))]_vars

\* C24 witness: a session with auto_reconnect has been connected, its peer has closed, the
\* read task has set Disconnected and ended, no attempt is under way and the last command
\* was the start
C24_Witness ==
    \E id \in DOMAIN sessions, t \in 1..Len(tasks) :
        /\ sessions[id].auto_reconnect
        /\ sessions[id].status = "disconnected"
        /\ tasks[t].kind = "client_read" /\ tasks[t].session = id /\ tasks[t].pc = "done"
        /\ Attempts(tasks, id) = {}
        /\ nc_calls[1].op = "start" /\ nc_calls[1].pc = "done"

----------------------------------------------------------------------------
\* the configuration fields of a forwarding rule
RuleConfig(r) == [local_port |-> r.local_port, remote_host |-> r.remote_host,
                  remote_port |-> r.remote_port]

\* the step loads the rules file
LoadsRules == ~RULES_LOADED /\ RULES_LOADED'

\* the step is a netcat_init
LoadsSessions == \E c \in Callers : nc_calls'[c] # nc_calls[c] /\ nc_calls'[c].op = "init"

\* C25: the step that loads the rules file leaves in the registry the ids of the file, each
\* with the configuration of the file, status Stopped, connections = bytes_in = bytes_out
\* = 0 and no controller registered; a netcat_init leaves under every id of the sessions
\* file a session with the configuration of the file, status Disconnected, zero byte,
\* message and client counts, no error message, an empty log, an empty client table, no
\* shutdown sender and no entry in a sender table.
C25_LoadedEntitiesAreIdle ==
    [][/\ LoadsRules =>
            /\ DOMAIN FORWARD_RULES' = DOMAIN rules_file
            /\ \A id \in DOMAIN rules_file :
                   /\ RuleConfig(FORWARD_RULES'[id]) = RuleConfig(rules_file[id])
                   /\ FORWARD_RULES'[id].status = "stopped"
                   /\ FORWARD_RULES'[id].connections = 0
                   /\ FORWARD_RULES'[id].bytes_in = 0
                   /\ FORWARD_RULES'[id].bytes_out = 0
                   /\ id \notin DOMAIN FORWARD_CONTROLLERS'
       /\ LoadsSessions =>
            \A id \in DOMAIN sessions_file :
                /\ id \in DOMAIN sessions'
                /\ NetcatSessionConfig(sessions'[id]) = sessions_file[id]
                /\ sessions'[id].status = "disconnected"
                /\ sessions'[id].bytes_sent = 0
                /\ sessions'[id].bytes_received = 0
                /\ sessions'[id].message_count = 0
                /\ sessions'[id].client_count = 0
                /\ sessions'[id].error_message = None
                /\ sessions'[id].messages = <<>>
                /\ sessions'[id].clients = {}
                /\ sessions'[id].shutdown_tx = None
                /\ id \notin DOMAIN TCP_SENDERS'
                /\ id \notin DOMAIN SERVER_CLIENTS'
                /\ id \notin DOMAIN UDP_SOCKETS']_vars

----------------------------------------------------------------------------
\* the ports that an arm of port_service_name lists
ListedPorts == UNION {PortServiceArms[i][1] : i \in 1..Len(PortServiceArms)}

\* C26: the list that get_common_ports returns is not empty and contains 80 and 443; the
\* service name that check_port returns is HTTP for port 80, HTTPS for port 443, SSH for
\* port 22, the name of an arm that lists the port for every listed port, and None for
\* every port that no arm lists.
C26_PortTablesAreFixedLookups ==
    /\ (scan_result.op = "get_common_ports" /\ scan_result.pc = "done") =>
           /\ Len(scan_result.ports) > 0
           /\ \E i \in 1..Len(scan_result.ports) : scan_result.ports[i] = 80
           /\ \E i \in 1..Len(scan_result.ports) : scan_result.ports[i] = 443
    /\ (scan_result.op = "check_port" /\ scan_result.pc = "done") =>
           /\ scan_result.port = 80 => scan_result.service = Some("HTTP")
           /\ scan_result.port = 443 => scan_result.service = Some("HTTPS")
           /\ scan_result.port = 22 => scan_result.service = Some("SSH")
           /\ scan_result.port \in ListedPorts =>
                  \E i \in 1..Len(PortServiceArms) :
                      /\ scan_result.port \in PortServiceArms[i][1]
                      /\ scan_result.service = Some(PortServiceArms[i][2])
           /\ scan_result.port \notin ListedPorts => scan_result.service = None

\* C26 witness: check_port has returned for a port above every listed port, with no
\* service name
C26_Witness ==
    /\ scan_result.op = "check_port" /\ scan_result.pc = "done"
    /\ \A p \in ListedPorts : scan_result.port > p
    /\ scan_result.service = None

----------------------------------------------------------------------------
\* no forwarder command is between its invocation and its return
NoCommandRuns == \A c \in Callers : calls[c].pc \in {"idle", "done"}

\* C27: while no command runs, every id of the controller table is the id of a rule whose
\* status is Running.
C27_ControllerOnlyWhileRunning ==
    NoCommandRuns =>
        \A id \in DOMAIN FORWARD_CONTROLLERS :
            id \in DOMAIN FORWARD_RULES /\ FORWARD_RULES[id].status = "running"

\* C28: while no command runs, every rule whose status is Running has an entry in the
\* controller table, and the stop flag of that controller is not set.
C28_RunningHasLiveController ==
    NoCommandRuns =>
        \A id \in DOMAIN FORWARD_RULES :
            FORWARD_RULES[id].status = "running" =>
                /\ id \in DOMAIN FORWARD_CONTROLLERS
                /\ ~controllers[FORWARD_CONTROLLERS[id]].stop

----------------------------------------------------------------------------
\* the listener task of controller s and every handler of its connections have ended, all
\* permits are back and the connection counter is 0
Wound(s) ==
    /\ servers[s].pc = "done"
    /\ servers[s].permits = MaxPermits
    /\ controllers[s].connections = 0
    /\ \A k \in 1..Len(conns) : conns[k].server = s => conns[k].pc = "done"

\* C29: once the stop flag of a controller is set, the run reaches a state in which its
\* accept loop has ended and released the listener, every handler of its connections has
\* ended, every permit is back in the semaphore and its connection counter is 0.
C29_StopWindsDown ==
    \A s \in 1..RelayStarts :
        (s \in 1..Len(controllers) /\ controllers[s].stop) ~> (s \in 1..Len(servers) /\ Wound(s))

----------------------------------------------------------------------------
\* the tasks whose loop selects on the shutdown channel of the session: the task of
\* start_session (the accept loop of a TCP server) and the receive loops of a TCP client
\* and of a UDP session
ShutdownTaskKinds == StartTaskKinds \cup {"client_read", "udp_recv"}

\* the last command is a stop_session on id that has sent the shutdown signal and
\* returned Ok, and every task of id that selects on the shutdown channel has ended
StoppedAndLeft(id) ==
    /\ \E c \in Callers : /\ nc_calls[c].op = "stop" /\ nc_calls[c].pc = "done"
                          /\ nc_calls[c].session_id = id /\ nc_calls[c].result = "ok"
                          /\ nc_calls[c].stopped
    /\ \A c \in Callers : nc_calls[c].pc \in {"idle", "done"}
    /\ \A t \in 1..Len(tasks) :
           (tasks[t].session = id /\ tasks[t].kind \in ShutdownTaskKinds) => tasks[t].pc = "done"

\* C30: after a stop_session on a session has sent the shutdown signal and returned, and
\* the loops that take the signal have ended, and until the next command, no step appends
\* a message to the log of the session or changes its message count or one of its byte
\* counters.
C30_NothingReceivedAfterStop ==
    [][\A id \in DOMAIN sessions :
          StoppedAndLeft(id) =>
              /\ id \in DOMAIN sessions'
              /\ sessions'[id].messages = sessions[id].messages
              /\ sessions'[id].message_count = sessions[id].message_count
              /\ sessions'[id].bytes_received = sessions[id].bytes_received
              /\ sessions'[id].bytes_sent = sessions[id].bytes_sent]_vars

----------------------------------------------------------------------------
(* Netcat engine: a session that is started twice *)

TwoStarts == 2      \* netcat_start_session calls that spawn a task in one run of SpecAgain

\* SpecAgain: a TCP client session is created, started up to TwoStarts times and stopped,
\* and its tasks connect, install their channels, see the peer close, and clean up
NextAgain ==
    \/ \E input \in SessionInputs("tcp", {"client"}) : netcat_create_session(1, input)
    \/ CreateSteps(1)
    \/ \E id \in SessionIds : netcat_start_session(1, id, TwoStarts)
    \/ \E id \in SessionIds : netcat_stop_session(1, id)
    \/ NcStopSteps(1)
    \/ \E t \in 1..Len(tasks) : tcp_client_connecting(t)
    \/ \E t \in 1..Len(tasks), msg \in ConnectErrors : tcp_client_connect_err(t, msg)
    \/ \E t \in 1..Len(tasks) : tcp_client_connect_ok(t)
    \/ \E t \in 1..Len(tasks) : install_shutdown(t)
    \/ \E t \in 1..Len(tasks) : tcp_client_install_sender(t)
    \/ \E t \in 1..Len(tasks) : client_read_shutdown(t)
    \/ \E t \in 1..Len(tasks) : client_read_eof(t)
    \/ \E t \in 1..Len(tasks) : client_read_cleanup(t)
    \/ \E t \in 1..Len(tasks) : client_send_closed(t)

SpecAgain == Init /\ [][NextAgain]_vars

\* the statuses of a session whose engine is active
ActiveStatuses == {"connecting", "connected", "listening"}

\* C31: a start_session on a session whose status is Connecting, Connected or Listening
\* spawns no task, and leaves the shutdown channels, the shutdown Sender stored in the
\* session and the sender table as they are.
C31_StartOnActiveSessionIsNoOp ==
    [][\A c \in Callers, id \in DOMAIN sessions :
          (/\ nc_calls[c].pc \in {"idle", "done"}
           /\ nc_calls'[c].op = "start" /\ nc_calls'[c].session_id = id
           /\ nc_calls'[c] # nc_calls[c] \/ tasks' # tasks
           /\ sessions[id].status \in ActiveStatuses) =>
              /\ tasks' = tasks
              /\ shutdown_channels' = shutdown_channels
              /\ TCP_SENDERS' = TCP_SENDERS
              /\ sessions' = sessions]_vars

\* a receive loop of a session that was never stopped has lost the Sender of its shutdown
\* channel and leaves, and a later one is running
C31_LoopLostItsChannel ==
    \E t, u \in 1..Len(tasks) :
        /\ t < u
        /\ tasks[t].kind = "client_read" /\ tasks[u].kind = "client_read"
        /\ tasks[t].session = tasks[u].session
        /\ tasks[t].pc = "cleanup" /\ tasks[u].pc = "read"
        /\ sessions[tasks[t].session].status = "connected"
        /\ \A c \in Callers : nc_calls[c].op # "stop"

----------------------------------------------------------------------------
(* Netcat engine: the read lock of TCP_SENDERS in send_tcp_client_data *)

\* send_tcp_client_data, first part: TCP_SENDERS.read().await and senders.get(session_id);
\* without an entry the function returns the error and the guard is dropped
send_tcp_client_lock(c) ==
    /\ Routing(c, "tcp", {"client"})
    /\ IF nc_calls[c].session_id \in DOMAIN TCP_SENDERS
       THEN NcSetCall(c, [nc_calls[c] EXCEPT !.pc = "send_wait"])
       ELSE NcFail(c, "err_not_connected")
    /\ UNCHANGED <<sessions, sessions_file, nc_next_id, TCP_SENDERS, SERVER_CLIENTS,
                   UDP_SOCKETS, shutdown_channels, send_channels, tasks>>
    /\ UNCHANGED <<fwd_vars, scan_vars>>

\* send_tcp_client_data, second part: tx.send(data).await completes while the guard
\* `senders` is alive; the guard is dropped when the function returns
send_tcp_client_send(c) ==
    /\ nc_calls[c].pc = "send_wait"
    /\ LET ch == TCP_SENDERS[nc_calls[c].session_id]
       IN /\ CanSend(ch)
          /\ IF send_channels[ch].rx_alive
             THEN /\ send_channels' = Enqueue(send_channels, ch,
                                              [data |-> nc_calls[c].data, addr |-> None])
                  /\ NcRecord(c)
             ELSE /\ send_channels' = send_channels
                  /\ NcFail(c, "err_send")
    /\ UNCHANGED <<sessions, sessions_file, nc_next_id, TCP_SENDERS, SERVER_CLIENTS,
                   UDP_SOCKETS, shutdown_channels, tasks>>
    /\ UNCHANGED <<fwd_vars, scan_vars>>

\* a command holds a read guard of TCP_SENDERS: TCP_SENDERS.write().await waits for it
SendersReadHeld == \E c \in Callers : nc_calls[c].pc = "send_wait"

\* one payload of one byte, sent as text
OneSend == {input \in TcpClientSends : input.format = "text" /\ Len(input.data) = 1}

\* SpecLocks: caller 1 starts a TCP client session and sends to it, caller 2 stops it, and
\* the tasks of the session run; a step that takes the write lock of TCP_SENDERS waits
\* while a read guard is held
NextLocks ==
    \/ \E input \in SessionInputs("tcp", {"client"}) : netcat_create_session(1, input)
    \/ CreateSteps(1)
    \/ \E id \in SessionIds : netcat_start_session(1, id, NcStarts)
    \/ \E id \in SessionIds, input \in OneSend : netcat_send_message(1, id, input, MaxMsgs)
    \/ send_tcp_client_lock(1)
    \/ send_tcp_client_send(1)
    \/ send_record(1)
    \/ \E id \in SessionIds : netcat_stop_session(2, id)
    \/ stop_session_take(2)
    \/ stop_session_send(2)
    \/ stop_session_status(2)
    \/ ~SendersReadHeld /\ stop_session_senders(2)
    \/ \E t \in 1..Len(tasks) : tcp_client_connecting(t)
    \/ \E t \in 1..Len(tasks), msg \in ConnectErrors : tcp_client_connect_err(t, msg)
    \/ \E t \in 1..Len(tasks) : tcp_client_connect_ok(t)
    \/ \E t \in 1..Len(tasks) : install_shutdown(t)
    \/ ~SendersReadHeld /\ \E t \in 1..Len(tasks) : tcp_client_install_sender(t)
    \/ \E t \in 1..Len(tasks) : client_read_shutdown(t)
    \/ \E t \in 1..Len(tasks) : client_read_eof(t)
    \/ ~SendersReadHeld /\ \E t \in 1..Len(tasks) : client_read_cleanup(t)
    \/ \E t \in 1..Len(tasks) : client_send_write_ok(t)
    \/ ~SendersReadHeld /\ \E t \in 1..Len(tasks) : client_send_write_err(t)
    \/ ~SendersReadHeld /\ \E t \in 1..Len(tasks) : client_send_closed(t)

SpecLocks == Init /\ [][NextLocks]_vars

\* C32: no command holds a read guard of the sender table while its send on the bounded
\* channel of the session waits for room, that is, while the send task that consumes the
\* channel has yet to write to the socket.
C32_NoSenderLockAcrossSend ==
    \A c \in Callers :
        nc_calls[c].pc = "send_wait" => CanSend(TCP_SENDERS[nc_calls[c].session_id])

\* a stop_session waits for the write lock of TCP_SENDERS behind a send that waits for
\* room in the channel
C32_StopWaitsBehindSend ==
    /\ nc_calls[1].pc = "send_wait" /\ ~CanSend(TCP_SENDERS[nc_calls[1].session_id])
    /\ nc_calls[2].pc = "stop_senders"

----------------------------------------------------------------------------
(* Forwarder: two callers edit the rules *)

\* the inputs of SpecPair: a valid remote side and a local port that is not 0
PairInput == {input \in ForwardRuleInput : ~InvalidInput(input)}

\* SpecPair: caller 1 adds, removes and updates rules, caller 2 adds rules, and their
\* commands interleave
NextPair ==
    \/ \E c \in Callers, input \in PairInput : add_forward_rule_invoke(c, input)
    \/ \E id \in RuleIds : remove_forward_rule_invoke(1, id)
    \/ \E id \in RuleIds, input \in PairInput : update_forward_rule_invoke(1, id, input)
    \/ \E c \in Callers : AddSteps(c)
    \/ StopSteps(1)
    \/ EditSteps(1)

SpecPair == Init /\ [][NextPair]_vars

\* the rules of a registry or of a snapshot, with their configuration fields
RuleConfigs(rules) == [id \in DOMAIN rules |-> RuleConfig(rules[id])]

\* C33: once the rules are loaded and while no command runs, the rules of the registry and
\* their configuration are those of the snapshot in the rules file.
C33_RegistryEqualsSnapshot ==
    (RULES_LOADED /\ NoCommandRuns) => RuleConfigs(FORWARD_RULES) = RuleConfigs(rules_file)

\* an add_forward_rule that could not persist has taken its rule out again and returned,
\* and the registry and the snapshot hold the same rules
C33_RolledBack ==
    /\ calls[1].op = "add" /\ calls[1].pc = "done" /\ calls[1].result = "err_save"
    /\ NoCommandRuns
    /\ DOMAIN FORWARD_RULES # {}
    /\ RuleConfigs(FORWARD_RULES) = RuleConfigs(rules_file)

----------------------------------------------------------------------------
(* Forwarder: two callers start the same rule *)

\* SpecRace: the rule of the earlier run's snapshot is started by two callers whose
\* commands interleave, and stopped by caller 1 while no start runs; the server tasks run
\* in between
NextRace ==
    \/ \E c \in Callers : InFlight("stop") = 0 /\ start_forwarding_invoke(c, 1, MaxStarts)
    \/ \E c \in Callers : StartSteps(c)
    \/ InFlight("start") = 0 /\ stop_forwarding_invoke(1, 1)
    \/ StopSteps(1)
    \/ \E s \in 1..Len(servers) : ListenSteps(s)

SpecRace == InitRestart /\ [][NextRace]_vars

\* the server tasks of a rule that are about to bind or in their accept loop and whose
\* stop flag is not set
LiveLoops(id) ==
    {s \in 1..Len(servers) : /\ servers[s].rule_id = id
                             /\ servers[s].pc \in {"bind", "loop", "acquire"}
                             /\ ~controllers[s].stop}

\* C34: while no command runs, a rule has at most one server task that is not told to
\* stop, and the controller of that task is the one the controller table holds for the
\* rule, so that stop_forwarding reaches it.
C34_LoopsUseRegisteredController ==
    NoCommandRuns =>
        \A id \in RuleIds :
            /\ Cardinality(LiveLoops(id)) <= 1
            /\ \A s \in LiveLoops(id) :
                   id \in DOMAIN FORWARD_CONTROLLERS /\ FORWARD_CONTROLLERS[id] = s

\* a rule has been started, stopped and started again by one caller, and the accept loop
\* of the second start runs with the registered controller
C34_Restarted ==
    /\ NoCommandRuns
    /\ Len(servers) = 2
    /\ servers[1].pc = "done"
    /\ servers[2].pc = "loop"
    /\ LiveLoops(1) = {2}
    /\ FORWARD_CONTROLLERS[1] = 2

\* stop_forwarding has set the stop flag of the registered controller and returned, and
\* the accept loop of the other start still holds the port with its stop flag not set
C34_LoopOutlivesStop ==
    /\ calls[1].op = "stop" /\ calls[1].pc = "done" /\ calls[2].pc = "done"
    /\ Len(servers) = 2
    /\ servers[1].pc = "loop" /\ ~controllers[1].stop
    /\ controllers[2].stop
    /\ 1 \notin DOMAIN FORWARD_CONTROLLERS

----------------------------------------------------------------------------
\* the server task s has left run_forward_server and is about to mark its rule Stopped,
\* while the rule is Running with the controller of a later start in the controller table
ExitsAfterRestart(s) ==
    /\ servers[s].pc = "exit"
    /\ servers[s].rule_id \in DOMAIN FORWARD_RULES
    /\ FORWARD_RULES[servers[s].rule_id].status = "running"
    /\ servers[s].rule_id \in DOMAIN FORWARD_CONTROLLERS
    /\ FORWARD_CONTROLLERS[servers[s].rule_id] > s

\* C35: the last step of the server task of an earlier start leaves the status of a rule
\* as it is when the rule has been started again and is Running with its new controller.
C35_EarlierExitKeepsRunning ==
    [][\A s \in 1..Len(servers) :
          (ExitsAfterRestart(s) /\ servers'[s].pc = "done") =>
              FORWARD_RULES'[servers[s].rule_id].status = "running"]_vars

\* the accept loop of the second start holds the port while the rule is Stopped and no
\* stop_forwarding was called after the second start
C35_RunningLoopOfStoppedRule ==
    /\ calls[1].op = "start" /\ calls[1].pc = "done" /\ calls[1].result = "ok"
    /\ Len(servers) = 2
    /\ servers[1].pc = "done"
    /\ servers[2].pc = "loop" /\ ~controllers[2].stop
    /\ FORWARD_RULES[servers[2].rule_id].status = "stopped"

----------------------------------------------------------------------------
\* the last command is a stop_session on id that found no shutdown channel to signal and
\* returned Ok, and the session is Disconnected
StoppedBeforeChannel(id) ==
    /\ \E c \in Callers : /\ nc_calls[c].op = "stop" /\ nc_calls[c].pc = "done"
                          /\ nc_calls[c].session_id = id /\ nc_calls[c].result = "ok"
                          /\ ~nc_calls[c].stopped
    /\ \A c \in Callers : nc_calls[c].pc \in {"idle", "done"}
    /\ sessions[id].status = "disconnected"

\* C36: after a stop_session that returned Ok without a shutdown channel to signal (the
\* start task had not installed it yet), and until the next command, every step leaves
\* the session Disconnected.
C36_StopDuringStartupHolds ==
    [][\A id \in DOMAIN sessions :
          StoppedBeforeChannel(id) =>
              (id \in DOMAIN sessions' /\ sessions'[id].status = "disconnected")]_vars

\* after such a stop the start task has installed its channels and the receive loop of the
\* session runs
C36_LoopRunsAfterStop ==
    \E id \in DOMAIN sessions :
        /\ \E c \in Callers : /\ nc_calls[c].op = "stop" /\ nc_calls[c].pc = "done"
                              /\ nc_calls[c].session_id = id /\ ~nc_calls[c].stopped
        /\ sessions[id].status = "connected"
        /\ sessions[id].shutdown_tx # None
        /\ \E t \in 1..Len(tasks) : /\ tasks[t].session = id
                                    /\ tasks[t].kind = "client_read" /\ tasks[t].pc = "read"

----------------------------------------------------------------------------
(* Netcat engine: a session that is stopped and started again *)

\* SpecRestart: a TCP client session is started, stopped, started again after a stop that
\* has signalled the read loop (up to TwoStarts starts) and sent to, and its tasks run
NextRestart ==
    \/ \E input \in SessionInputs("tcp", {"client"}) : netcat_create_session(1, input)
    \/ CreateSteps(1)
    \/ \E id \in SessionIds :
          /\ StartTasks = {} \/ (nc_calls[1].op = "stop" /\ nc_calls[1].stopped)
          /\ netcat_start_session(1, id, TwoStarts)
    \/ \E id \in SessionIds : netcat_stop_session(1, id)
    \/ NcStopSteps(1)
    \/ \E id \in SessionIds, input \in OneSend : netcat_send_message(1, id, input, HexMsgs)
    \/ send_tcp_client_data(1)
    \/ send_record(1)
    \/ \E t \in 1..Len(tasks) : tcp_client_connecting(t)
    \/ \E t \in 1..Len(tasks) : tcp_client_connect_ok(t)
    \/ \E t \in 1..Len(tasks) : install_shutdown(t)
    \/ \E t \in 1..Len(tasks) : tcp_client_install_sender(t)
    \/ \E t \in 1..Len(tasks) : client_read_shutdown(t)
    \/ \E t \in 1..Len(tasks) : client_read_eof(t)
    \/ \E t \in 1..Len(tasks) : client_read_cleanup(t)
    \/ \E t \in 1..Len(tasks) : client_send_write_ok(t)
    \/ \E t \in 1..Len(tasks) : client_send_closed(t)

SpecRestart == Init /\ [][NextRestart]_vars

\* the send channel that the start task created together with the read task t: the send
\* task is spawned right after the read task
ChannelOfRun(t) == tasks[t + 1].ch

\* the step hands a payload of a send_message call to the session's send channel
SendAccepted(c) == nc_calls[c].pc = "send_route" /\ nc_calls'[c].pc = "send_record"

\* the step is the cleanup of read loop t
CleansUp(t) == tasks[t].kind = "client_read" /\ tasks[t].pc = "cleanup" /\ tasks'[t].pc = "done"

\* C37: no payload of a send_message call is accepted while the session is Disconnected
\* or Error, and the cleanup of a read loop leaves the sender table and the status as
\* they are when the entry of the session is the channel of another run.
C37_SenderTableFollowsStatus ==
    [][/\ \A c \in Callers :
              SendAccepted(c) =>
                  sessions[nc_calls[c].session_id].status \notin {"disconnected", "error"}
       /\ \A t \in 1..Len(tasks) :
              (/\ CleansUp(t)
               /\ tasks[t].session \in DOMAIN TCP_SENDERS
               /\ TCP_SENDERS[tasks[t].session] # ChannelOfRun(t)) =>
                  /\ TCP_SENDERS' = TCP_SENDERS
                  /\ sessions'[tasks[t].session].status = sessions[tasks[t].session].status]_vars

\* the first conjunct of C37 alone
C37_NoSendWhileDisconnected ==
    [][\A c \in Callers :
          SendAccepted(c) =>
              sessions[nc_calls[c].session_id].status \notin {"disconnected", "error"}]_vars

\* the second conjunct of C37 alone
C37_CleanupSparesNewRun ==
    [][\A t \in 1..Len(tasks) :
          (/\ CleansUp(t)
           /\ tasks[t].session \in DOMAIN TCP_SENDERS
           /\ TCP_SENDERS[tasks[t].session] # ChannelOfRun(t)) =>
              TCP_SENDERS' = TCP_SENDERS]_vars

\* the session is Connected after its second start, its read loop runs, and the sender
\* table has no entry for it
C37_ConnectedWithoutSender ==
    \E t \in 1..Len(tasks) :
        /\ tasks[t].kind = "client_read" /\ tasks[t].pc = "read"
        /\ ~ShutdownReady(tasks[t].sd)
        /\ sessions[tasks[t].session].status = "connected"
        /\ tasks[t].session \notin DOMAIN TCP_SENDERS
        /\ \E u \in 1..Len(tasks) : u < t /\ tasks[u].kind = "client_read" /\ tasks[u].pc = "done"
        /\ nc_calls[1].op = "start"

----------------------------------------------------------------------------
(* Netcat engine: the order of the chunks a TCP server receives from one client *)

\* the chunks the client of SpecOrder sends, in the order in which it sends them: "A", "B"
OrderedChunks == <<<<65>>, <<66>>>>

\* the chunks the read tasks have read so far
ChunksRead == Cardinality({h \in 1..Len(tasks) : tasks[h].kind = "server_handle"})

\* SpecOrder: a TCP server session is started and accepts one client, which sends the
\* chunks of OrderedChunks and closes
NextOrder ==
    \/ \E input \in SessionInputs("tcp", {"server"}) : netcat_create_session(1, input)
    \/ CreateSteps(1)
    \/ \E id \in SessionIds : netcat_start_session(1, id, NcStarts)
    \/ \E t \in 1..Len(tasks) : tcp_server_bind_ok(t)
    \/ \E t \in 1..Len(tasks) : tcp_server_init_clients(t)
    \/ \E t \in 1..Len(tasks) : install_shutdown(t)
    \/ \E t \in 1..Len(tasks) : tcp_server_accept(t, ServerClients)
    \/ \E t \in 1..Len(tasks) : tcp_server_register(t)
    \/ \E t \in 1..Len(tasks) :
          /\ ChunksRead < Len(OrderedChunks)
          /\ server_read_data(t, OrderedChunks[ChunksRead + 1], ServerMsgs)
    \/ \E t \in 1..Len(tasks) : server_handle_received(t)
    \/ \E t \in 1..Len(tasks) : server_read_eof(t)
    \/ \E t \in 1..Len(tasks) : handle_client_disconnect_state(t)
    \/ \E t \in 1..Len(tasks) : handle_client_disconnect_sender(t)
    \/ \E t \in 1..Len(tasks) : server_send_closed(t)

SpecOrder == Init /\ [][NextOrder]_vars

\* the Received messages of a log, in the order of the log
ReceivedIn(log) == SelectSeq(log, LAMBDA m : m.direction = "received")

\* C38: the Received messages in the log of a session are the chunks read from the
\* client's socket in the order in which they were read, one message per chunk, and the
\* session has counted each of them once with its size.
C38_ReceivedInReadOrder ==
    \A id \in DOMAIN sessions :
        LET recv == ReceivedIn(sessions[id].messages)
        IN /\ \A i \in 1..Len(recv) :
                  /\ i <= Len(OrderedChunks)
                  /\ recv[i].data = bytes_to_display_string(OrderedChunks[i])
                  /\ recv[i].size = Len(OrderedChunks[i])
           /\ sessions[id].message_count = Len(recv)
           /\ sessions[id].bytes_received = Len(recv)

\* both chunks are logged, the second one read before the first one read
C38_Swapped ==
    \E id \in DOMAIN sessions :
        /\ Len(sessions[id].messages) = 2
        /\ sessions[id].messages[1].data = bytes_to_display_string(OrderedChunks[2])
        /\ sessions[id].messages[2].data = bytes_to_display_string(OrderedChunks[1])

----------------------------------------------------------------------------
\* C39: the client_count of every session is the number of entries of its client table.
C39_ClientCountIsTableSize ==
    \A id \in DOMAIN sessions :
        sessions[id].client_count = Cardinality(sessions[id].clients)

\* a stop_session has returned, the accept loop has ended and emptied the client table,
\* and the session still counts a client
C39_CountAfterStop ==
    \E id \in DOMAIN sessions :
        /\ StoppedAndLeft(id)
        /\ sessions[id].status = "disconnected"
        /\ sessions[id].clients = {}
        /\ sessions[id].client_count > 0

----------------------------------------------------------------------------
(* Netcat engine: a TCP server session whose first start fails *)

\* SpecRetry: a TCP server session is started up to TwoStarts times and stopped; a bind
\* fails or succeeds, and the tasks of the session run
NextRetry ==
    \/ \E input \in SessionInputs("tcp", {"server"}) : netcat_create_session(1, input)
    \/ CreateSteps(1)
    \/ \E id \in SessionIds : netcat_start_session(1, id, TwoStarts)
    \/ \E id \in SessionIds : netcat_stop_session(1, id)
    \/ NcStopSteps(1)
    \/ \E t \in 1..Len(tasks) : tcp_server_bind_ok(t)
    \/ \E t \in 1..Len(tasks) : tcp_server_bind_err(t)
    \/ \E t \in 1..Len(tasks) : bind_error_set(t)
    \/ \E t \in 1..Len(tasks) : tcp_server_init_clients(t)
    \/ \E t \in 1..Len(tasks) : install_shutdown(t)
    \/ \E t \in 1..Len(tasks) : tcp_server_shutdown(t)
    \/ \E t \in 1..Len(tasks) : tcp_server_cleanup_status(t)
    \/ \E t \in 1..Len(tasks) : tcp_server_cleanup_clients(t)

SpecRetry == Init /\ [][NextRetry]_vars

\* C40: the error_message of every session is set if and only if its status is Error.
C40_ErrorMessageIffError ==
    \A id \in DOMAIN sessions :
        (sessions[id].error_message # None) <=> (sessions[id].status = "error")

\* a session whose first start failed to bind is Listening after its second start, with
\* its accept loop running, and still carries the error message
C40_ListeningWithMessage ==
    \E id \in DOMAIN sessions :
        /\ sessions[id].status = "listening"
        /\ sessions[id].error_message # None
        /\ \E t \in 1..Len(tasks) : /\ tasks[t].session = id /\ tasks[t].kind = "tcp_server"
                                    /\ tasks[t].pc = "loop"
        /\ \A t \in 1..Len(tasks) : tasks[t].kind = "bind_error" => tasks[t].pc = "done"

====
